---- MODULE Spec2Model ----
(***************************************************************************)
(* Telegram WebApp backend: the initData authenticator (verifyTelegramInit- *)
(* Data, parseTelegramUser, telegramAuth) and the Account / AdminGrant      *)
(* tables it and the admin routes write.                                    *)
(*                                                                          *)
(* A string is a sequence of symbols.  A symbol is one character ("a",      *)
(* "=", "&"), or a whole word standing for a run of characters that the     *)
(* code never looks inside (the key names "hash" and "user", a JSON text,   *)
(* a hex digest).                                                           *)
(***************************************************************************)
EXTENDS Integers, Sequences, FiniteSets, TLC

VARIABLES
    vcase,      \* pure-function harness: the payload under test and how it was made
    botToken,   \* env.BOT_TOKEN
    vpc,        \* pure-function harness: which functions have been applied
    vresult,    \* result of verifyTelegramInitData(vcase.raw, botToken)
    presult,    \* result of parseTelegramUser(vcase.raw)
    retry,      \* pure-function harness: one call of withTelegramAction and its action
    users,      \* the "User" table: a set of rows
    admins,     \* the "Admin" table: a set of rows
    nextUid,    \* number of User rows created so far (row ids are never reused)
    nextAid,    \* number of Admin rows created so far
    checks,     \* the "Check" table: a set of rows
    nextCid,    \* number of Check rows created so far
    seed,       \* bootstrap: env.ADMIN_SEED_CHAT_IDS and the position of each seeding task
    rq,         \* per request: the route, the header and the parameters it came with
    pc,         \* per request: where its handler chain stands
    loc,        \* per request: the locals of its handlers and req.context
    resp,       \* per request: the response sent (status 0: none yet)
    wrote       \* per request: whether a store call of it has written a table

purevars == <<vcase, botToken, vpc, vresult, presult, retry>>

dbvars == <<users, admins, nextUid, nextAid, checks, nextCid>>

reqvars == <<rq, pc, loc, resp, wrote>>

vars == <<vcase, botToken, vpc, vresult, presult, retry,
          users, admins, nextUid, nextAid, checks, nextCid, seed, rq, pc, loc, resp, wrote>>

----------------------------------------------------------------------------
(* Bounds *)

\* longest list of non-hash fields the signer signs
MaxFields == 2

\* requests received in one run
MaxReq == 2

\* requests in flight at the same time
MaxInFlight == 2

\* User rows created in one run
MaxUserRows == 3

\* Admin rows created in one run
MaxAdminRows == 2

\* Check rows created in one run
MaxCheckRows == 2

\* calls of the chat action whose outcomes are fixed in advance
MaxScript == 4

----------------------------------------------------------------------------
(* Strings and the query-string form of initData *)

\* escape of a symbol in a query string (the client side of URLSearchParams)
EncodeSym(c) ==
    CASE c = "=" -> "%3D"
      [] c = "&" -> "%26"
      [] c = " " -> "+"
      [] OTHER -> c

\* percent-decoding of one raw token, '+' read as a space
DecodeSym(t) ==
    CASE t = "%3D" -> "="
      [] t = "%26" -> "&"
      [] t = "+" -> " "
      [] OTHER -> t

EncodeStr(s) == [i \in 1..Len(s) |-> EncodeSym(s[i])]

DecodeStr(s) == [i \in 1..Len(s) |-> DecodeSym(s[i])]

\* key=value of one field, as the client writes it
EncodeField(f) == EncodeStr(f[1]) \o <<"=">> \o EncodeStr(f[2])

RECURSIVE EncodeQuery(_)
\* the initData string of a list of fields: key=value joined by '&'
EncodeQuery(fields) ==
    IF fields = <<>> THEN <<>>
    ELSE IF Len(fields) = 1 THEN EncodeField(fields[1])
    ELSE EncodeField(fields[1]) \o <<"&">> \o EncodeQuery(Tail(fields))

\* index of the first occurrence of symbol c in s, 0 when there is none
IndexOf(s, c) ==
    IF \E i \in 1..Len(s) : s[i] = c
    THEN CHOOSE i \in 1..Len(s) : s[i] = c /\ \A j \in 1..(i-1) : s[j] # c
    ELSE 0

RECURSIVE SplitAmp(_)
\* the pieces of a raw string between '&' separators
SplitAmp(raw) ==
    LET i == IndexOf(raw, "&") IN
    IF i = 0 THEN <<raw>>
    ELSE <<SubSeq(raw, 1, i-1)>> \o SplitAmp(SubSeq(raw, i+1, Len(raw)))

\* one piece of a query string: name up to the first '=', value after it
ParsePiece(piece) ==
    LET i == IndexOf(piece, "=") IN
    IF i = 0 THEN <<DecodeStr(piece), <<>>>>
    ELSE <<DecodeStr(SubSeq(piece, 1, i-1)), DecodeStr(SubSeq(piece, i+1, Len(piece)))>>

\* new URLSearchParams(initData): the ordered list of (name, value) entries
URLSearchParams(raw) ==
    LET pieces == SelectSeq(SplitAmp(raw), LAMBDA p : p # <<>>)
    IN  [i \in 1..Len(pieces) |-> ParsePiece(pieces[i])]

\* params.get(name): the value of the first entry of that name, or null
ParamsGet(params, name) ==
    IF \E i \in 1..Len(params) : params[i][1] = name
    THEN [found |-> TRUE,
          val |-> params[CHOOSE i \in 1..Len(params) :
                            /\ params[i][1] = name
                            /\ \A j \in 1..(i-1) : params[j][1] # name][2]]
    ELSE [found |-> FALSE, val |-> <<>>]

\* params.delete(name): every entry of that name is removed
ParamsDelete(params, name) == SelectSeq(params, LAMBDA e : e[1] # name)

----------------------------------------------------------------------------
(* verifyTelegramInitData *)

\* collation weight of a symbol under localeCompare; "e1" and "e2" are two
\* canonically equivalent spellings of one letter, which compare equal
Weight(c) ==
    CASE c = "=" -> 1
      [] c = "&" -> 2
      [] c = "1" -> 3
      [] c = "2" -> 4
      [] c = "a" -> 5
      [] c = "auth_date" -> 6
      [] c = "b" -> 7
      [] c = "e1" -> 8
      [] c = "e2" -> 8
      [] c = "hash" -> 9
      [] c = "user" -> 10
      [] c = "x" -> 11
      [] OTHER -> 12

RECURSIVE LocaleCompare(_, _)
\* keyA.localeCompare(keyB): negative, zero or positive
LocaleCompare(s, t) ==
    IF s = <<>> /\ t = <<>> THEN 0
    ELSE IF s = <<>> THEN -1
    ELSE IF t = <<>> THEN 1
    ELSE IF Weight(Head(s)) < Weight(Head(t)) THEN -1
    ELSE IF Weight(Head(s)) > Weight(Head(t)) THEN 1
    ELSE LocaleCompare(Tail(s), Tail(t))

RECURSIVE InsertSorted(_, _)
\* e placed after every entry that does not compare greater: keeps the sort stable
InsertSorted(sorted, e) ==
    IF sorted = <<>> THEN <<e>>
    ELSE IF LocaleCompare(Head(sorted)[1], e[1]) <= 0
         THEN <<Head(sorted)>> \o InsertSorted(Tail(sorted), e)
         ELSE <<e>> \o sorted

RECURSIVE SortByKey(_)
\* Array.prototype.sort with the key comparator (a stable sort)
SortByKey(entries) ==
    IF entries = <<>> THEN <<>>
    ELSE InsertSorted(SortByKey(SubSeq(entries, 1, Len(entries)-1)), entries[Len(entries)])

RECURSIVE JoinLines(_)
\* `${key}=${value}` of every entry, joined by '\n'
JoinLines(entries) ==
    IF entries = <<>> THEN <<>>
    ELSE IF Len(entries) = 1 THEN entries[1][1] \o <<"=">> \o entries[1][2]
    ELSE entries[1][1] \o <<"=">> \o entries[1][2] \o <<"LF">> \o JoinLines(Tail(entries))

\* the entries left in the order they were sent
EntriesAsSent(entries) == entries

\* sort the entries that are not the hash
SortedEntries(entries) == SortByKey(entries)

\* the data-check string of the entries that are left once hash is deleted
DataCheckString(entries) == JoinLines(SortedEntries(entries))

\* crypto.createHash('sha256').update(botToken).digest(), collision-free
Sha256(token) == <<"sha256", token>>

\* the bot token itself used as the key
TokenAsKey(token) == token

\* the key of the HMAC, derived from the bot token
SecretKey(token) == Sha256(token)

\* crypto.createHmac('sha256', key).update(msg).digest('hex'): a digest is one
\* symbol, and distinct (key, msg) give distinct digests
HmacHex(key, msg) == <<ToString(<<"hmac", key, msg>>)>>

\* a payload without a hash is let through
VerifyPassesWithoutHash(initData, token) ==
    LET params == URLSearchParams(initData)
        hash == ParamsGet(params, <<"hash">>)
    IN  \/ ~hash.found
        \/ hash.val = <<>>
        \/ HmacHex(SecretKey(token), DataCheckString(ParamsDelete(params, <<"hash">>))) = hash.val

\* a verification that also wants auth_date to be the current time ("2")
VerifyFresh(initData, token) ==
    LET params == URLSearchParams(initData)
        hash == ParamsGet(params, <<"hash">>)
    IN  /\ hash.found
        /\ HmacHex(SecretKey(token), DataCheckString(ParamsDelete(params, <<"hash">>))) = hash.val
        /\ ParamsGet(params, <<"auth_date">>).val = <<"2">>

verifyTelegramInitData(initData, token) ==
    IF initData = <<>> THEN FALSE
    ELSE
        LET params == URLSearchParams(initData)
            hash == ParamsGet(params, <<"hash">>)
        IN  IF ~hash.found \/ hash.val = <<>> THEN FALSE
            ELSE HmacHex(SecretKey(token),
                         DataCheckString(ParamsDelete(params, <<"hash">>))) = hash.val

----------------------------------------------------------------------------
(* parseTelegramUser *)

\* absent text column, absent JSON member
Null == "NULL"

\* the value a JSON text denotes; id 0 with hasId FALSE when it has no id member
JsonObject(hasId, id, name) ==
    [kind |-> "object", hasId |-> hasId, id |-> id,
     username |-> name, first_name |-> name, last_name |-> name,
     language_code |-> name, photo_url |-> name]

JsonNull == [kind |-> "null", hasId |-> FALSE, id |-> 0,
             username |-> Null, first_name |-> Null, last_name |-> Null,
             language_code |-> Null, photo_url |-> Null]

JsonNumber(n) == [JsonNull EXCEPT !.kind = "number", !.id = n]

\* the JSON texts of the model, each one symbol
JsonTexts == {"{id:1}", "{id:1,names:a}", "{id:2}", "{id:2,names:a}", "{}", "null",
              "0", "1", "2", "str", "[]", "{id:str3}"}

\* a JSON string, a JSON array, and an object whose id member is the string "3"
\* (id holds the number that its toString() spells)
JsonString == [JsonNull EXCEPT !.kind = "string"]

JsonArray == [JsonNull EXCEPT !.kind = "array"]

JsonObjectStringId(n) == [JsonObject(TRUE, n, Null) EXCEPT !.kind = "object_string_id"]

\* JSON.parse: ok is FALSE when it throws a SyntaxError
JsonParse(text) ==
    IF Len(text) # 1 THEN [ok |-> FALSE, val |-> JsonNull]
    ELSE CASE text[1] = "{id:1}" -> [ok |-> TRUE, val |-> JsonObject(TRUE, 1, Null)]
           [] text[1] = "{id:1,names:a}" -> [ok |-> TRUE, val |-> JsonObject(TRUE, 1, "a")]
           [] text[1] = "{id:2}" -> [ok |-> TRUE, val |-> JsonObject(TRUE, 2, Null)]
           [] text[1] = "{id:2,names:a}" -> [ok |-> TRUE, val |-> JsonObject(TRUE, 2, "a")]
           [] text[1] = "{}" -> [ok |-> TRUE, val |-> JsonObject(FALSE, 0, Null)]
           [] text[1] = "null" -> [ok |-> TRUE, val |-> JsonNull]
           [] text[1] = "0" -> [ok |-> TRUE, val |-> JsonNumber(0)]
           [] text[1] = "str" -> [ok |-> TRUE, val |-> JsonString]
           [] text[1] = "[]" -> [ok |-> TRUE, val |-> JsonArray]
           [] text[1] = "{id:str3}" -> [ok |-> TRUE, val |-> JsonObjectStringId(3)]
           [] text[1] = "1" -> [ok |-> TRUE, val |-> JsonNumber(1)]
           [] text[1] = "2" -> [ok |-> TRUE, val |-> JsonNumber(2)]
           [] OTHER -> [ok |-> FALSE, val |-> JsonNull]

\* the user entry that parseTelegramUser reads
RawUser(params) == ParamsGet(params, <<"user">>)

\* the identity is read only from a payload that carries a hash
ParseOnlyWithHash(initData) ==
    LET params == URLSearchParams(initData)
        rawUser == RawUser(params)
    IN  IF ~ParamsGet(params, <<"hash">>).found THEN JsonNull
        ELSE IF ~rawUser.found \/ rawUser.val = <<>> THEN JsonNull
        ELSE LET parsed == JsonParse(rawUser.val)
             IN  IF parsed.ok THEN parsed.val ELSE JsonNull

parseTelegramUser(initData) ==
    LET rawUser == RawUser(URLSearchParams(initData))
    IN  IF ~rawUser.found \/ rawUser.val = <<>> THEN JsonNull
        ELSE LET parsed == JsonParse(rawUser.val)
             IN  IF parsed.ok THEN parsed.val ELSE JsonNull

----------------------------------------------------------------------------
(* The payloads the pure functions are applied to.  The signer holds a list *)
(* of fields in canonical (sorted) order and signs its lines; what is sent  *)
(* is that list, a permutation of it, or the list with one field replaced,  *)
(* with zero, one or two hash fields.                                       *)

Secrets == {"S1", "S2"}

FieldChoices ==
    { <<<<"a">>, <<"1">>>>,
      <<<<"a">>, <<"x", "=", "1">>>>,
      <<<<"a", "=", "x">>, <<"1">>>>,
      <<<<"e1">>, <<"1">>>>,
      <<<<"e2">>, <<"1">>>>,
      <<<<"user">>, <<"{id:1}">>>>,
      <<<<"user">>, <<"{bad">>>> }

\* the lists of at most maxLen fields
FieldLists(maxLen) == UNION { [1..n -> FieldChoices] : n \in 0..maxLen }

\* the order the signer writes its fields in
IsSortedList(fields) ==
    \A i \in 1..(Len(fields)-1) : LocaleCompare(fields[i][1], fields[i+1][1]) <= 0

RECURSIVE SignerLines(_)
SignerLines(fields) ==
    IF fields = <<>> THEN <<>>
    ELSE IF Len(fields) = 1 THEN fields[1][1] \o <<"=">> \o fields[1][2]
    ELSE fields[1][1] \o <<"=">> \o fields[1][2] \o <<"LF">> \o SignerLines(Tail(fields))

\* the digest the signer computes with secret S over its own list
SignerDigest(fields, secret) ==
    <<ToString(<<"hmac", <<"sha256", secret>>, SignerLines(fields)>>)>>

TamperOps(fields) ==
    {[t |-> "id", i |-> 0, f |-> <<>>]}
    \cup {[t |-> "swap", i |-> i, f |-> <<>>] : i \in 1..(Len(fields)-1)}
    \cup {[t |-> "replace", i |-> i, f |-> f] :
            i \in 1..Len(fields), f \in FieldChoices \ {fields[i] : i \in 1..Len(fields)}}

Tamper(fields, op) ==
    CASE op.t = "id" -> fields
      [] op.t = "swap" ->
            [k \in 1..Len(fields) |->
                IF k = op.i THEN fields[op.i + 1]
                ELSE IF k = op.i + 1 THEN fields[op.i] ELSE fields[k]]
      [] op.t = "replace" -> [fields EXCEPT ![op.i] = op.f]

JunkDigest == <<"junk">>

HashLayouts == {"none", "empty", "junk", "signed", "signedFront",
                "junkThenSigned", "signedThenJunk"}

\* the fields sent, with the hash fields of the layout put in
WithHash(sent, layout, digest) ==
    LET h(v) == <<<<"hash">>, v>> IN
    CASE layout = "none" -> sent
      [] layout = "empty" -> sent \o <<h(<<>>)>>
      [] layout = "junk" -> sent \o <<h(JunkDigest)>>
      [] layout = "signed" -> sent \o <<h(digest)>>
      [] layout = "signedFront" -> <<h(digest)>> \o sent
      [] layout = "junkThenSigned" -> sent \o <<h(JunkDigest), h(digest)>>
      [] layout = "signedThenJunk" -> sent \o <<h(digest), h(JunkDigest)>>

\* strings that are no list of key=value pairs
GarbageRaws == { <<"x">>, <<"&", "&">>, <<"=", "1">>, <<"hash">>, <<"%3D">>,
                 <<"hash", "=">>, <<"user">> }

\* every payload made from a sorted list of at most maxLen signed fields
FieldCases(maxLen) ==
    UNION { { [kind |-> "fields", signed |-> s, secret |-> k, op |-> o, layout |-> l,
               sent |-> Tamper(s, o),
               raw |-> EncodeQuery(WithHash(Tamper(s, o), l, SignerDigest(s, k)))] :
                k \in Secrets, o \in TamperOps(s), l \in HashLayouts } :
            s \in {fl \in FieldLists(maxLen) : IsSortedList(fl)} }

GarbageCases ==
    { [kind |-> "garbage", signed |-> <<>>, secret |-> "S1",
       op |-> [t |-> "id", i |-> 0, f |-> <<>>], layout |-> "none",
       sent |-> <<>>, raw |-> g] : g \in GarbageRaws }


----------------------------------------------------------------------------
(* The store: the "User" and "Admin" tables with their unique indexes *)

NoId == 0

\* JavaScript undefined: a member the request body does not have
Undef == "UNDEF"

\* a "User" row with the column defaults of the migrations
DefaultUser(id, tid) ==
    [id |-> id, telegramId |-> tid,
     username |-> Null, firstName |-> Null, lastName |-> Null,
     languageCode |-> Null, photoUrl |-> Null, phone |-> Null, bio |-> Null,
     payoutUsdtTrc20 |-> Null, payoutUsdtBep20 |-> Null, chatId |-> Null,
     mutedUntil |-> Null, isBlocked |-> FALSE, blockReason |-> Null,
     isPartner |-> FALSE]

\* no row: what findUnique gives when nothing matches
NoUser == DefaultUser(NoId, Null)

DefaultAdmin(id, tid) ==
    [id |-> id, telegramId |-> tid, displayName |-> Null, notes |-> Null]

NoAdmin == DefaultAdmin(NoId, Null)

\* prisma.user.findUnique({ where: { telegramId } })
UserByTelegramId(tbl, tid) ==
    IF \E u \in tbl : u.telegramId = tid
    THEN CHOOSE u \in tbl : u.telegramId = tid
    ELSE NoUser

\* prisma.user.findUnique({ where: { id } })
UserById(tbl, id) ==
    IF \E u \in tbl : u.id = id THEN CHOOSE u \in tbl : u.id = id ELSE NoUser

\* a lookup that gives some row of the table whatever its telegramId
AdminAnyRow(tbl, tid) == IF tbl # {} THEN CHOOSE a \in tbl : TRUE ELSE NoAdmin

\* prisma.admin.findUnique({ where: { telegramId } })
AdminByTelegramId(tbl, tid) ==
    IF \E a \in tbl : a.telegramId = tid
    THEN CHOOSE a \in tbl : a.telegramId = tid
    ELSE NoAdmin

AdminById(tbl, id) ==
    IF \E a \in tbl : a.id = id THEN CHOOSE a \in tbl : a.id = id ELSE NoAdmin

\* a table without its unique index
NoUniqueIndex(tbl, row) == FALSE

\* User_telegramId_key / Admin_telegramId_key: the row cannot be written when
\* another row of the table holds its telegramId
UniqueViolation(tbl, row) ==
    \E other \in tbl : other.telegramId = row.telegramId /\ other.id # row.id

\* an upsert that inserts whether or not a row holds the key
UpsertAlwaysInserts(tbl, tid, created, updated) == tbl \cup {created}

\* the table after an upsert keyed by telegramId: one atomic statement that
\* updates the row holding the key, or inserts `created` when no row holds it
UpsertByTelegramId(tbl, tid, created, updated) ==
    IF \E row \in tbl : row.telegramId = tid
    THEN (tbl \ {CHOOSE row \in tbl : row.telegramId = tid}) \cup {updated}
    ELSE tbl \cup {created}

----------------------------------------------------------------------------
(* telegramAuth *)

\* telegramUser.id.toString()
IdToString(n) == ToString(n)

\* !telegramUser
Falsy(v) == v.kind = "null" \/ (v.kind = "number" /\ v.id = 0)

\* the identity parsed before the signature is verified
AuthGateParsesFirst(header, token) ==
    IF ~header.present \/ header.case.raw = <<>> THEN "Missing"
    ELSE LET telegramUser == parseTelegramUser(header.case.raw) IN
         IF Falsy(telegramUser) THEN "MalformedIdentity"
         ELSE IF ~verifyTelegramInitData(header.case.raw, token) THEN "InvalidSignature"
         ELSE IF ~telegramUser.hasId THEN "TypeError"
         ELSE "Proceed"

\* the signature not verified at all
AuthGateSkipsVerify(header, token) ==
    IF ~header.present \/ header.case.raw = <<>> THEN "Missing"
    ELSE LET telegramUser == parseTelegramUser(header.case.raw) IN
         IF Falsy(telegramUser) THEN "MalformedIdentity"
         ELSE IF ~telegramUser.hasId THEN "TypeError"
         ELSE "Proceed"

\* the identity parsed and only then the signature verified
GateCallsParseFirst(header, token) ==
    IF ~header.present \/ header.case.raw = <<>> THEN <<>>
    ELSE <<"parse", "verify">>

\* the calls telegramAuth makes, in order, up to its first store call
GateCalls(header, token) ==
    IF ~header.present \/ header.case.raw = <<>> THEN <<>>
    ELSE IF ~verifyTelegramInitData(header.case.raw, token) THEN <<"verify">>
    ELSE <<"verify", "parse">>

\* the outcome of telegramAuth up to its first store call
AuthGate(header, token) ==
    IF ~header.present \/ header.case.raw = <<>> THEN "Missing"
    ELSE IF ~verifyTelegramInitData(header.case.raw, token) THEN "InvalidSignature"
    ELSE LET telegramUser == parseTelegramUser(header.case.raw) IN
         IF Falsy(telegramUser) THEN "MalformedIdentity"
         ELSE IF ~telegramUser.hasId THEN "TypeError"
         ELSE "Proceed"

Response(status, error) == [status |-> status, error |-> error]

NoResponse == Response(0, "")

\* res.status(401).json({ error }) of the three failures
AuthFailureResponse(outcome) ==
    CASE outcome = "Missing" -> Response(401, "Missing Telegram init data")
      [] outcome = "InvalidSignature" -> Response(401, "Invalid Telegram init data")
      [] outcome = "MalformedIdentity" -> Response(401, "Invalid Telegram user payload")

\* an error handler that takes every error for a failed authentication
ErrorHandlerUnauthorized(err) == Response(401, "Unauthorized")

\* the error handler of createApp
ErrorHandler(err) ==
    IF err = "ZodError" THEN Response(400, "Validation error")
    ELSE Response(500, "Internal server error")

\* a create that leaves the new Account blocked
AuthCreateBlocked(id, tid, tg) ==
    [DefaultUser(id, tid) EXCEPT
        !.username = tg.username, !.firstName = tg.first_name,
        !.lastName = tg.last_name, !.languageCode = tg.language_code,
        !.photoUrl = tg.photo_url, !.isBlocked = TRUE]

\* the create branch of the upsert of telegramAuth
AuthCreate(id, tid, tg) ==
    [DefaultUser(id, tid) EXCEPT
        !.username = tg.username, !.firstName = tg.first_name,
        !.lastName = tg.last_name, !.languageCode = tg.language_code,
        !.photoUrl = tg.photo_url]

\* the update writing a whole fresh row in place of the old one
AuthUpdateReplacesRow(row, tg) == AuthCreate(row.id, row.telegramId, tg)

\* the update skipping the members the identity omits
AuthUpdateKeepsOmitted(row, tg) ==
    [row EXCEPT
        !.username = IF tg.username = Null THEN @ ELSE tg.username,
        !.firstName = IF tg.first_name = Null THEN @ ELSE tg.first_name,
        !.lastName = IF tg.last_name = Null THEN @ ELSE tg.last_name,
        !.languageCode = IF tg.language_code = Null THEN @ ELSE tg.language_code,
        !.photoUrl = IF tg.photo_url = Null THEN @ ELSE tg.photo_url]

\* the update lifting the block and the mute of the Account that signs in
AuthUpdateLiftsModeration(row, tg) ==
    [row EXCEPT
        !.username = tg.username, !.firstName = tg.first_name,
        !.lastName = tg.last_name, !.languageCode = tg.language_code,
        !.photoUrl = tg.photo_url,
        !.isBlocked = FALSE, !.blockReason = Null, !.mutedUntil = Null]

\* the update branch of the upsert of telegramAuth
AuthUpdate(row, tg) ==
    [row EXCEPT
        !.username = tg.username, !.firstName = tg.first_name,
        !.lastName = tg.last_name, !.languageCode = tg.language_code,
        !.photoUrl = tg.photo_url]

----------------------------------------------------------------------------
(* Requests *)

Reqs == 1..MaxReq

NoCase == [kind |-> "garbage", signed |-> <<>>, secret |-> "S1",
           op |-> [t |-> "id", i |-> 0, f |-> <<>>], layout |-> "none",
           sent |-> <<>>, raw |-> <<>>]

\* the x-telegram-init-data header of a request
Header(case) == [present |-> TRUE, case |-> case]

NoHeader == [present |-> FALSE, case |-> NoCase]

MkCase(signed, secret, op, layout) ==
    [kind |-> "fields", signed |-> signed, secret |-> secret, op |-> op, layout |-> layout,
     sent |-> Tamper(signed, op),
     raw |-> EncodeQuery(WithHash(Tamper(signed, op), layout, SignerDigest(signed, secret)))]

IdOp == [t |-> "id", i |-> 0, f |-> <<>>]

ReplaceOp(i, f) == [t |-> "replace", i |-> i, f |-> f]

UserField(text) == <<<<"user">>, <<text>>>>

\* a=1, a=2
FieldA1 == <<<<"a">>, <<"1">>>>

FieldA2 == <<<<"a">>, <<"2">>>>

\* key a with value x=1, and key a=x with value 1
FieldAX1 == <<<<"a">>, <<"x", "=", "1">>>>

FieldAXeq1 == <<<<"a", "=", "x">>, <<"1">>>>

\* a payload Telegram signed for the identity of that JSON text
SignedFor(text) == Header(MkCase(<<UserField(text)>>, "S1", IdOp, "signed"))

\* a request body: every member the schemas of the routes name
EmptyBody ==
    [telegramId |-> Undef, username |-> Undef, firstName |-> Undef, lastName |-> Undef,
     languageCode |-> Undef, photoUrl |-> Undef, phone |-> Undef, bio |-> Undef,
     payoutUsdtTrc20 |-> Undef, payoutUsdtBep20 |-> Undef, chatId |-> Undef,
     durationMinutes |-> Undef, until |-> Undef, reason |-> Undef,
     displayName |-> Undef, notes |-> Undef, amount |-> Undef, note |-> Undef,
     userId |-> Undef, valid |-> TRUE]

Request(route, header, target, body, fault) ==
    [route |-> route, header |-> header, target |-> target, body |-> body, fault |-> fault]

NoRequest == Request("none", NoHeader, NoId, EmptyBody, "none")

NoLocals ==
    [telegramUser |-> JsonNull, telegramId |-> Null, userRecord |-> NoUser,
     adminRecord |-> NoAdmin, hasContext |-> FALSE, nextCalls |-> 0, nextError |-> FALSE,
     found |-> NoUser, chatId |-> Null, until |-> Null, attempt |-> 0,
     calls |-> <<>>, targetUserId |-> NoId, listed |-> {}]

InFlight == {r \in Reqs : pc[r] \notin {"idle", "done"}}

\* bootstrap has awaited seedInitialAdmins and the server listens
Listening == \A i \in DOMAIN seed.at : seed.at[i] = "done"

\* a ?? b
Coalesce(a, b) == IF a = Undef \/ a = Null THEN b ELSE a

----------------------------------------------------------------------------
(* The routers behind requireAdmin: /users and /admins *)

\* String.prototype.trim on the texts of the model
Trim(s) ==
    CASE s = " " -> ""
      [] s = " 1" -> "1"
      [] OTHER -> s

\* a value that is not undefined, null or the empty string
Truthy(v) == v \notin {Undef, Null, ""}

sanitizeNullableString(value) ==
    IF value = Undef THEN Undef
    ELSE IF Trim(value) # "" THEN Trim(value) ELSE Null

DEFAULT_CHAT_ID == "-1003141626322"

MAX_CHAT_ACTION_ATTEMPTS == 3

\* a loop that gives up only after one attempt more than the limit
ChatAttemptOffByOne(attempt, outcome) ==
    IF outcome = "ok" THEN "return"
    ELSE IF attempt = MAX_CHAT_ACTION_ATTEMPTS + 1 THEN "throw"
    ELSE "retry"

\* a loop whose catch drops the error of the last attempt
ChatAttemptSwallows(attempt, outcome) ==
    IF outcome = "ok" \/ attempt = MAX_CHAT_ACTION_ATTEMPTS THEN "return" ELSE "retry"

\* one pass of the loop of withTelegramAction, given what action() did at
\* that attempt ("ok", or the name of the error it threw): return its result,
\* rethrow its error, or go round again
ChatAttempt(attempt, outcome) ==
    IF outcome = "ok" THEN "return"
    ELSE IF attempt = MAX_CHAT_ACTION_ATTEMPTS THEN "throw"
    ELSE "retry"

\* payloadChatId?.trim() || userChatId || null
resolveChatId(payloadChatId, userChatId) ==
    IF payloadChatId # Undef /\ Trim(payloadChatId) # "" THEN Trim(payloadChatId)
    ELSE IF Truthy(userChatId) THEN userChatId
    ELSE Null

\* "t1" is the one text of the model that new Date() can read
parseDateInput(value) == IF value = "t1" THEN "t1" ELSE Undef

\* Number.isNaN(Number(telegramId))
NumberIsNaN(telegramId) == telegramId \notin {"", "1", "2", "3"}

\* userBodySchema.parse does not throw
userBodySchema(body) == body.valid /\ body.telegramId \notin {Undef, ""}

updateUserSchema(body) == body.valid /\ body.telegramId # ""

adminBodySchema(body) ==
    body.valid /\ body.telegramId \notin {Undef, ""} /\ body.displayName # ""

updateAdminSchema(body) == body.valid /\ body.telegramId # "" /\ body.displayName # ""

muteSchema(body) ==
    /\ body.valid
    /\ \/ body.durationMinutes # Undef
       \/ body.until # Undef /\ Trim(body.until) # ""

\* ...(value !== undefined ? { field: value } : {})
Assign(row, field, value) == IF value = Undef THEN row ELSE [row EXCEPT ![field] = value]

UserTextFields ==
    <<"username", "firstName", "lastName", "languageCode", "photoUrl", "phone", "bio",
      "payoutUsdtTrc20", "payoutUsdtBep20">>

RECURSIVE AssignSanitized(_, _, _)
AssignSanitized(row, fields, body) ==
    IF fields = <<>> THEN row
    ELSE AssignSanitized(Assign(row, Head(fields), sanitizeNullableString(body[Head(fields)])),
                         Tail(fields), body)

\* the data of prisma.user.create in POST /users
UserCreateData(id, body) ==
    LET chatId == sanitizeNullableString(body.chatId)
        resolvedChatId == Trim(Coalesce(chatId, DEFAULT_CHAT_ID))
        row == AssignSanitized(DefaultUser(id, Trim(body.telegramId)), UserTextFields, body)
    IN  IF Truthy(resolvedChatId) THEN [row EXCEPT !.chatId = resolvedChatId] ELSE row

\* data.telegramId of PUT /users/:id once it is trimmed
UpdateTelegramId(body) ==
    IF Truthy(body.telegramId) THEN Trim(body.telegramId) ELSE body.telegramId

\* the row after prisma.user.update in PUT /users/:id
UserUpdateData(row, body) ==
    LET telegramId == UpdateTelegramId(body)
        chatId == sanitizeNullableString(body.chatId)
        withId == IF Truthy(telegramId) THEN [row EXCEPT !.telegramId = telegramId] ELSE row
        withText == AssignSanitized(withId, UserTextFields, body)
    IN  IF chatId = Undef THEN withText
        ELSE [withText EXCEPT !.chatId = Coalesce(chatId, DEFAULT_CHAT_ID)]

\* the row after prisma.admin.update with the members the body has
AdminUpdateData(row, body) ==
    Assign(Assign(Assign(row, "telegramId", body.telegramId),
                  "displayName", body.displayName), "notes", body.notes)

\* createCheckSchema.parse does not throw; userId, a member of the body, is
\* the row id the request names
createCheckSchema(req) ==
    req.body.valid /\ req.target # NoId /\ req.body.amount \notin {Undef, "0"}

updateCheckSchema(body) ==
    body.valid /\ body.amount # "0" /\ (body.amount # Undef \/ body.note # Undef)

\* a middleware that calls next() for everyone
RequireAdminIsOpen(admin) == TRUE

\* requireAdmin calls next(): req.context?.admin is a row
requireAdmin(admin) == admin # NoAdmin

\* requireAuth, requireAdmin and the start of the route's handler
Dispatch(req, admin) ==
    LET go(at) == [pc |-> at, resp |-> NoResponse]
        zod == [pc |-> "done", resp |-> ErrorHandler("ZodError")]
    IN
    IF req.route = "session" THEN [pc |-> "done", resp |-> Response(200, "")]
    ELSE IF req.route = "profilePatch"
    THEN IF req.body.valid THEN go("profile_update") ELSE zod
    ELSE IF req.route = "checkList"
    THEN IF req.body.valid THEN go("clist") ELSE zod
    ELSE IF ~requireAdmin(admin)
    THEN [pc |-> "done", resp |-> Response(403, "Admin access required")]
    ELSE CASE req.route = "userCreate" ->
                IF userBodySchema(req.body) THEN go("ucreate_find") ELSE zod
           [] req.route = "userUpdate" ->
                IF ~updateUserSchema(req.body) THEN zod
                ELSE IF Truthy(req.body.telegramId) THEN go("uupdate_find")
                ELSE go("uupdate_update")
           [] req.route = "userDelete" -> go("udelete")
           [] req.route = "adminCreate" ->
                IF adminBodySchema(req.body) THEN go("acreate_find") ELSE zod
           [] req.route = "adminUpdate" ->
                IF ~updateAdminSchema(req.body) THEN zod
                ELSE IF Truthy(req.body.telegramId) THEN go("aupdate_find")
                ELSE go("aupdate_update")
           [] req.route = "adminDelete" -> go("adelete")
           [] req.route = "mute" ->
                IF muteSchema(req.body) THEN go("mod_find") ELSE zod
           [] req.route \in {"unmute", "block", "unblock"} ->
                IF req.body.valid THEN go("mod_find") ELSE zod
           [] req.route = "checkCreate" ->
                IF createCheckSchema(req) THEN go("ccreate_find") ELSE zod
           [] req.route = "checkUpdate" ->
                IF updateCheckSchema(req.body) THEN go("cupdate") ELSE zod
           [] req.route = "checkDelete" -> go("cdelete")
           [] req.route = "checkSummary" ->
                IF req.body.valid THEN go("csummary") ELSE zod

----------------------------------------------------------------------------
(* Bootstrap: seedInitialAdmins, one task per entry of ADMIN_SEED_CHAT_IDS,  *)
(* all running together; the server listens once every task is done.        *)

SeedLists == { <<>>, <<"2">>, <<"2", "2">> }

\* the user upsert of seeding task i
SeedUser(i) ==
    /\ i \in DOMAIN seed.at
    /\ seed.at[i] = "user"
    /\ LET telegramId == seed.ids[i]
           existing == UserByTelegramId(users, telegramId)
           created == DefaultUser(nextUid + 1, telegramId)
       IN  /\ users' = UpsertByTelegramId(users, telegramId, created, existing)
           /\ nextUid' = IF created \in users' THEN nextUid + 1 ELSE nextUid
    /\ seed' = [seed EXCEPT !.at[i] = "admin"]
    /\ UNCHANGED <<purevars, checks, nextCid, admins, nextAid, reqvars>>

\* the admin upsert of seeding task i
SeedAdmin(i) ==
    /\ i \in DOMAIN seed.at
    /\ seed.at[i] = "admin"
    /\ LET telegramId == seed.ids[i]
           existing == AdminByTelegramId(admins, telegramId)
           created == [DefaultAdmin(nextAid + 1, telegramId) EXCEPT
                          !.displayName = "Admin " \o telegramId]
       IN  /\ admins' = UpsertByTelegramId(admins, telegramId, created, existing)
           /\ nextAid' = IF created \in admins' THEN nextAid + 1 ELSE nextAid
    /\ seed' = [seed EXCEPT !.at[i] = "done"]
    /\ UNCHANGED <<purevars, checks, nextCid, users, nextUid, reqvars>>

----------------------------------------------------------------------------
(* telegramAuth, in the three steps its two awaits cut it into *)

\* telegramAuth threw after the calls `calls`: catch, next(error), and the
\* error handler answers
AuthThrows(r, err, calls) ==
    /\ pc' = [pc EXCEPT ![r] = "done"]
    /\ resp' = [resp EXCEPT ![r] = ErrorHandler(err)]
    /\ loc' = [loc EXCEPT ![r].nextCalls = @ + 1, ![r].nextError = TRUE,
                          ![r].calls = calls \o <<"next(error)">>]

\* a telegramAuth that answers 401 for a payload whose signature is wrong and
\* goes on, its `return` left out
AuthBeginNoReturn(r, choices) ==
    /\ Listening
    /\ pc[r] = "idle"
    /\ \A q \in Reqs : q < r => pc[q] # "idle"
    /\ Cardinality(InFlight) < MaxInFlight
    /\ \E req \in choices :
        LET outcome == AuthGate(req.header, botToken)
            calls == GateCalls(req.header, botToken)
            telegramUser == parseTelegramUser(req.header.case.raw)
        IN
        /\ rq' = [rq EXCEPT ![r] = req]
        /\ IF outcome = "Proceed" \/ (outcome = "InvalidSignature" /\ telegramUser.hasId)
           THEN /\ pc' = [pc EXCEPT ![r] = "auth_upsert"]
                /\ loc' = [loc EXCEPT ![r].telegramUser = telegramUser,
                                      ![r].telegramId = IdToString(telegramUser.id),
                                      ![r].calls = <<"verify", "parse">>]
                /\ resp' = IF outcome = "Proceed" THEN resp
                           ELSE [resp EXCEPT ![r] = AuthFailureResponse(outcome)]
           ELSE IF outcome = "TypeError"
           THEN AuthThrows(r, "TypeError", calls)
           ELSE /\ pc' = [pc EXCEPT ![r] = "done"]
                /\ resp' = [resp EXCEPT ![r] = AuthFailureResponse(outcome)]
                /\ loc' = [loc EXCEPT ![r].calls = calls]
    /\ UNCHANGED <<purevars, dbvars, seed, wrote>>

\* a request arrives: the header check, verifyTelegramInitData, parseTelegramUser
\* and telegramUser.id.toString(), up to the upsert being issued
AuthBegin(r, choices) ==
    /\ Listening
    /\ pc[r] = "idle"
    /\ \A q \in Reqs : q < r => pc[q] # "idle"
    /\ Cardinality(InFlight) < MaxInFlight
    /\ \E req \in choices :
        LET outcome == AuthGate(req.header, botToken)
            calls == GateCalls(req.header, botToken)
        IN
        /\ rq' = [rq EXCEPT ![r] = req]
        /\ IF outcome = "Proceed"
           THEN LET telegramUser == parseTelegramUser(req.header.case.raw) IN
                /\ pc' = [pc EXCEPT ![r] = "auth_upsert"]
                /\ loc' = [loc EXCEPT ![r].telegramUser = telegramUser,
                                      ![r].telegramId = IdToString(telegramUser.id),
                                      ![r].calls = calls]
                /\ resp' = resp
           ELSE IF outcome = "TypeError"
           THEN AuthThrows(r, "TypeError", calls)
           ELSE /\ pc' = [pc EXCEPT ![r] = "done"]
                /\ resp' = [resp EXCEPT ![r] = AuthFailureResponse(outcome)]
                /\ loc' = [loc EXCEPT ![r].calls = calls]
    /\ UNCHANGED <<purevars, dbvars, seed, wrote>>

\* a request for GET /health arrives: the route is mounted before telegramAuth
\* and answers { status: 'ok' } whatever the request carries
Health(r, headers) ==
    /\ Listening
    /\ pc[r] = "idle"
    /\ \A q \in Reqs : q < r => pc[q] # "idle"
    /\ \E h \in headers : rq' = [rq EXCEPT ![r] = Request("health", h, NoId, EmptyBody, "none")]
    /\ pc' = [pc EXCEPT ![r] = "done"]
    /\ resp' = [resp EXCEPT ![r] = Response(200, "ok")]
    /\ UNCHANGED <<purevars, dbvars, seed, loc, wrote>>

\* prisma.user.upsert of telegramAuth
AuthUpsert(r) ==
    /\ pc[r] = "auth_upsert"
    /\ IF rq[r].fault = "upsert"
       THEN /\ AuthThrows(r, "PrismaError", loc[r].calls \o <<"upsert">>)
            /\ UNCHANGED <<dbvars, wrote>>
       ELSE LET telegramId == loc[r].telegramId
                existing == UserByTelegramId(users, telegramId)
                created == AuthCreate(nextUid + 1, telegramId, loc[r].telegramUser)
                updated == AuthUpdate(existing, loc[r].telegramUser)
            IN  /\ existing = NoUser => nextUid < MaxUserRows
                /\ users' = UpsertByTelegramId(users, telegramId, created, updated)
                /\ nextUid' = IF created \in users' THEN nextUid + 1 ELSE nextUid
                /\ loc' = [loc EXCEPT ![r].userRecord =
                                IF created \in users' THEN created ELSE updated,
                                      ![r].calls = @ \o <<"upsert">>]
                /\ pc' = [pc EXCEPT ![r] = "auth_lookup"]
                /\ wrote' = [wrote EXCEPT ![r] = TRUE]
                /\ UNCHANGED <<resp, admins, nextAid>>
    /\ UNCHANGED <<purevars, checks, nextCid, seed, rq>>

\* prisma.admin.findUnique of telegramAuth, req.context, next() and what next()
\* runs before the first store call of the route
AuthLookup(r) ==
    /\ pc[r] = "auth_lookup"
    /\ IF rq[r].fault = "lookup"
       THEN AuthThrows(r, "PrismaError", loc[r].calls \o <<"lookup">>)
       ELSE LET adminRecord == AdminByTelegramId(admins, loc[r].telegramId)
                d == Dispatch(rq[r], adminRecord)
            IN  /\ loc' = [loc EXCEPT ![r].adminRecord = adminRecord,
                                      ![r].hasContext = TRUE,
                                      ![r].nextCalls = @ + 1,
                                      ![r].calls = @ \o <<"lookup", "next">>]
                /\ pc' = [pc EXCEPT ![r] = d.pc]
                /\ resp' = [resp EXCEPT ![r] = d.resp]
    /\ UNCHANGED <<purevars, dbvars, seed, rq, wrote>>

----------------------------------------------------------------------------
(* PATCH /profile/me *)

\* the data of the update: every member the body lacks becomes null
ProfileData(row, body) ==
    [row EXCEPT
        !.firstName = Coalesce(body.firstName, Null),
        !.lastName = Coalesce(body.lastName, Null),
        !.username = Coalesce(body.username, Null),
        !.phone = Coalesce(body.phone, Null),
        !.bio = Coalesce(body.bio, Null)]

\* a handler wrapped in asyncHandler threw: next(error), the error handler answers
HandlerThrows(r, err) ==
    /\ pc' = [pc EXCEPT ![r] = "done"]
    /\ resp' = [resp EXCEPT ![r] = ErrorHandler(err)]

\* prisma.user.update({ where: { id: user.id }, data })
ProfileUpdate(r) ==
    /\ pc[r] = "profile_update"
    /\ LET row == UserById(users, loc[r].userRecord.id) IN
       IF row = NoUser
       THEN /\ HandlerThrows(r, "PrismaError")
            /\ UNCHANGED <<users, wrote>>
       ELSE /\ users' = (users \ {row}) \cup {ProfileData(row, rq[r].body)}
            /\ pc' = [pc EXCEPT ![r] = "done"]
            /\ resp' = [resp EXCEPT ![r] = Response(200, "")]
            /\ wrote' = [wrote EXCEPT ![r] = TRUE]
    /\ UNCHANGED <<purevars, checks, nextCid, admins, nextUid, nextAid, seed, rq, loc>>

----------------------------------------------------------------------------
(* POST /users, PUT /users/:id, DELETE /users/:id *)

\* the handler answers and returns
Answer(r, status, error) ==
    /\ pc' = [pc EXCEPT ![r] = "done"]
    /\ resp' = [resp EXCEPT ![r] = Response(status, error)]

\* POST /users: prisma.user.findUnique({ where: { telegramId } })
UserCreateFind(r) ==
    /\ pc[r] = "ucreate_find"
    /\ IF UserByTelegramId(users, Trim(rq[r].body.telegramId)) # NoUser
       THEN Answer(r, 409, "User with this telegramId already exists")
       ELSE pc' = [pc EXCEPT ![r] = "ucreate_create"] /\ resp' = resp
    /\ UNCHANGED <<purevars, dbvars, seed, rq, loc, wrote>>

\* POST /users: prisma.user.create
UserCreate(r) ==
    /\ pc[r] = "ucreate_create"
    /\ LET row == UserCreateData(nextUid + 1, rq[r].body) IN
       IF UniqueViolation(users, row)
       THEN /\ HandlerThrows(r, "PrismaError")
            /\ UNCHANGED <<users, nextUid, wrote>>
       ELSE /\ nextUid < MaxUserRows
            /\ users' = users \cup {row}
            /\ nextUid' = nextUid + 1
            /\ wrote' = [wrote EXCEPT ![r] = TRUE]
            /\ Answer(r, 201, "")
    /\ UNCHANGED <<purevars, checks, nextCid, admins, nextAid, seed, rq, loc>>

\* a PUT /users/:id that takes the row's own telegramId for a conflict
UserUpdateFindRejectsOwn(r) ==
    /\ pc[r] = "uupdate_find"
    /\ IF UserByTelegramId(users, UpdateTelegramId(rq[r].body)) # NoUser
       THEN Answer(r, 409, "User with this telegramId already exists")
       ELSE pc' = [pc EXCEPT ![r] = "uupdate_update"] /\ resp' = resp
    /\ UNCHANGED <<purevars, dbvars, seed, rq, loc, wrote>>

\* PUT /users/:id: prisma.user.findUnique({ where: { telegramId } })
UserUpdateFind(r) ==
    /\ pc[r] = "uupdate_find"
    /\ LET existing == UserByTelegramId(users, UpdateTelegramId(rq[r].body)) IN
       IF existing # NoUser /\ existing.id # rq[r].target
       THEN Answer(r, 409, "User with this telegramId already exists")
       ELSE pc' = [pc EXCEPT ![r] = "uupdate_update"] /\ resp' = resp
    /\ UNCHANGED <<purevars, dbvars, seed, rq, loc, wrote>>

\* PUT /users/:id: prisma.user.update({ where: { id } })
UserUpdate(r) ==
    /\ pc[r] = "uupdate_update"
    /\ LET row == UserById(users, rq[r].target)
           updated == UserUpdateData(row, rq[r].body)
       IN  IF row = NoUser \/ UniqueViolation(users, updated)
           THEN /\ HandlerThrows(r, "PrismaError")
                /\ UNCHANGED <<users, wrote>>
           ELSE /\ users' = (users \ {row}) \cup {updated}
                /\ wrote' = [wrote EXCEPT ![r] = TRUE]
                /\ Answer(r, 200, "")
    /\ UNCHANGED <<purevars, checks, nextCid, admins, nextUid, nextAid, seed, rq, loc>>

\* DELETE /users/:id: prisma.user.delete({ where: { id } }); Check_userId_fkey
\* deletes the Check rows of the Account with it (ON DELETE CASCADE)
UserDelete(r) ==
    /\ pc[r] = "udelete"
    /\ LET row == UserById(users, rq[r].target) IN
       IF row = NoUser
       THEN /\ HandlerThrows(r, "PrismaError")
            /\ UNCHANGED <<users, checks, wrote>>
       ELSE /\ users' = users \ {row}
            /\ checks' = {c \in checks : c.userId # row.id}
            /\ wrote' = [wrote EXCEPT ![r] = TRUE]
            /\ Answer(r, 204, "")
    /\ UNCHANGED <<purevars, nextCid, admins, nextUid, nextAid, seed, rq, loc>>

----------------------------------------------------------------------------
(* POST /admins, PUT /admins/:id, DELETE /admins/:id *)

\* prisma.admin.findUnique({ where: { telegramId } }) of POST and PUT /admins
AdminFind(r) ==
    /\ pc[r] \in {"acreate_find", "aupdate_find"}
    /\ LET existing == AdminByTelegramId(admins, rq[r].body.telegramId)
           conflict == IF pc[r] = "acreate_find" THEN existing # NoAdmin
                       ELSE existing # NoAdmin /\ existing.id # rq[r].target
       IN  IF conflict
           THEN Answer(r, 409, "Admin with this telegramId already exists")
           ELSE /\ pc' = [pc EXCEPT ![r] = IF pc[r] = "acreate_find"
                                           THEN "acreate_upsert" ELSE "aupdate_upsert"]
                /\ resp' = resp
    /\ UNCHANGED <<purevars, dbvars, seed, rq, loc, wrote>>

\* prisma.user.upsert({ where: { telegramId }, create: { telegramId }, update: {} })
AdminEnsureUser(r) ==
    /\ pc[r] \in {"acreate_upsert", "aupdate_upsert"}
    /\ LET telegramId == rq[r].body.telegramId
           existing == UserByTelegramId(users, telegramId)
           created == DefaultUser(nextUid + 1, telegramId)
       IN  /\ existing = NoUser => nextUid < MaxUserRows
           /\ users' = UpsertByTelegramId(users, telegramId, created, existing)
           /\ nextUid' = IF created \in users' THEN nextUid + 1 ELSE nextUid
    /\ pc' = [pc EXCEPT ![r] = IF pc[r] = "acreate_upsert"
                                THEN "acreate_create" ELSE "aupdate_update"]
    /\ wrote' = [wrote EXCEPT ![r] = TRUE]
    /\ UNCHANGED <<purevars, checks, nextCid, admins, nextAid, seed, rq, loc, resp>>

\* POST /admins: prisma.admin.create({ data })
AdminCreate(r) ==
    /\ pc[r] = "acreate_create"
    /\ LET row == AdminUpdateData(DefaultAdmin(nextAid + 1, rq[r].body.telegramId), rq[r].body) IN
       IF UniqueViolation(admins, row)
       THEN /\ HandlerThrows(r, "PrismaError")
            /\ UNCHANGED <<admins, nextAid, wrote>>
       ELSE /\ nextAid < MaxAdminRows
            /\ admins' = admins \cup {row}
            /\ nextAid' = nextAid + 1
            /\ wrote' = [wrote EXCEPT ![r] = TRUE]
            /\ Answer(r, 201, "")
    /\ UNCHANGED <<purevars, checks, nextCid, users, nextUid, seed, rq, loc>>

\* PUT /admins/:id: prisma.admin.update({ where: { id }, data })
AdminUpdate(r) ==
    /\ pc[r] = "aupdate_update"
    /\ LET row == AdminById(admins, rq[r].target)
           updated == AdminUpdateData(row, rq[r].body)
       IN  IF row = NoAdmin \/ UniqueViolation(admins, updated)
           THEN /\ HandlerThrows(r, "PrismaError")
                /\ UNCHANGED <<admins, wrote>>
           ELSE /\ admins' = (admins \ {row}) \cup {updated}
                /\ wrote' = [wrote EXCEPT ![r] = TRUE]
                /\ Answer(r, 200, "")
    /\ UNCHANGED <<purevars, checks, nextCid, users, nextUid, nextAid, seed, rq, loc>>

\* DELETE /admins/:id: prisma.admin.delete({ where: { id } })
AdminDelete(r) ==
    /\ pc[r] = "adelete"
    /\ LET row == AdminById(admins, rq[r].target) IN
       IF row = NoAdmin
       THEN /\ HandlerThrows(r, "PrismaError")
            /\ UNCHANGED <<admins, wrote>>
       ELSE /\ admins' = admins \ {row}
            /\ wrote' = [wrote EXCEPT ![r] = TRUE]
            /\ Answer(r, 204, "")
    /\ UNCHANGED <<purevars, checks, nextCid, users, nextUid, nextAid, seed, rq, loc>>

----------------------------------------------------------------------------
(* POST /users/:id/mute, /unmute, /block, /unblock: the four handlers have   *)
(* one shape (find the user, act in the chat, update the row)               *)

ModRoutes == {"mute", "unmute", "block", "unblock"}

\* the end of the mute taken from `until` whenever the body has one
MuteUntilPrefersUntil(body) ==
    IF body.until # Undef THEN parseDateInput(body.until) ELSE "now+d"

\* the end of the mute: now + durationMinutes, or the date of `until`
MuteUntil(body) ==
    IF body.durationMinutes # Undef THEN "now+d" ELSE parseDateInput(body.until)

\* the 502 answer of each handler (the texts are Russian in the source)
ChatFailure(route) ==
    CASE route = "mute" -> Response(502, "mute: chat action failed")
      [] route = "unmute" -> Response(502, "unmute: chat action failed")
      [] route = "block" -> Response(502, "block: chat action failed")
      [] route = "unblock" -> Response(502, "unblock: chat action failed")

\* how many attempts of the chat action of a request the Telegram API fails
ChatFailures(fault) ==
    CASE fault = "chat1" -> 1
      [] fault = "chat3" -> MAX_CHAT_ACTION_ATTEMPTS
      [] OTHER -> 0

\* prisma.user.findUnique({ where: { id } }) and what follows up to the chat action
ModFind(r) ==
    /\ pc[r] = "mod_find"
    /\ LET user == UserById(users, rq[r].target)
           chatId == resolveChatId(rq[r].body.chatId, user.chatId)
           until == MuteUntil(rq[r].body)
           route == rq[r].route
       IN  IF user = NoUser
           THEN Answer(r, 404, "User not found") /\ loc' = loc
           ELSE IF route \in {"mute", "unmute"} /\ ~Truthy(chatId)
           THEN Answer(r, 400, "chatId is not given") /\ loc' = loc
           ELSE IF route = "mute" /\ until = Undef
           THEN Answer(r, 400, "bad end date") /\ loc' = loc
           ELSE /\ loc' = [loc EXCEPT ![r].found = user, ![r].chatId = chatId,
                                      ![r].until = IF route = "mute" THEN until ELSE Null]
                /\ pc' = [pc EXCEPT ![r] = IF Truthy(chatId) THEN "mod_chat" ELSE "mod_update"]
                /\ resp' = resp
    /\ UNCHANGED <<purevars, dbvars, seed, rq, wrote>>

\* one attempt of withTelegramAction
ModChat(r) ==
    /\ pc[r] = "mod_chat"
    /\ LET attempt == loc[r].attempt + 1 IN
       IF NumberIsNaN(loc[r].found.telegramId)
       THEN /\ pc' = [pc EXCEPT ![r] = "done"]
            /\ resp' = [resp EXCEPT ![r] = ChatFailure(rq[r].route)]
            /\ loc' = loc
       ELSE LET outcome == IF attempt <= ChatFailures(rq[r].fault) THEN "error" ELSE "ok"
                pass == ChatAttempt(attempt, outcome)
            IN  /\ loc' = [loc EXCEPT ![r].attempt = attempt]
                /\ pc' = [pc EXCEPT ![r] = CASE pass = "return" -> "mod_update"
                                               [] pass = "throw" -> "done"
                                               [] OTHER -> @]
                /\ resp' = [resp EXCEPT ![r] = IF pass = "throw"
                                               THEN ChatFailure(rq[r].route) ELSE @]
    /\ UNCHANGED <<purevars, dbvars, seed, rq, wrote>>

\* an unblock that lifts the mute as well
ModDataUnblockClearsMute(route, row, l, body) ==
    CASE route = "mute" -> [row EXCEPT !.mutedUntil = l.until, !.chatId = l.chatId]
      [] route = "unmute" -> [row EXCEPT !.mutedUntil = Null, !.chatId = l.chatId]
      [] route = "block" ->
            [row EXCEPT !.isBlocked = TRUE,
                        !.blockReason = IF body.reason = Undef THEN Null ELSE Trim(body.reason),
                        !.chatId = Coalesce(l.chatId, l.found.chatId),
                        !.mutedUntil = Null]
      [] route = "unblock" ->
            [row EXCEPT !.isBlocked = FALSE, !.blockReason = Null,
                        !.chatId = Coalesce(l.chatId, l.found.chatId),
                        !.mutedUntil = Null]

\* an unblock that leaves the reason of the block on the Account
ModDataUnblockKeepsReason(route, row, l, body) ==
    CASE route = "mute" -> [row EXCEPT !.mutedUntil = l.until, !.chatId = l.chatId]
      [] route = "unmute" -> [row EXCEPT !.mutedUntil = Null, !.chatId = l.chatId]
      [] route = "block" ->
            [row EXCEPT !.isBlocked = TRUE,
                        !.blockReason = IF body.reason = Undef THEN Null ELSE Trim(body.reason),
                        !.chatId = Coalesce(l.chatId, l.found.chatId),
                        !.mutedUntil = Null]
      [] route = "unblock" ->
            [row EXCEPT !.isBlocked = FALSE,
                        !.chatId = Coalesce(l.chatId, l.found.chatId)]

\* the data of prisma.user.update of each handler
ModData(route, row, l, body) ==
    CASE route = "mute" -> [row EXCEPT !.mutedUntil = l.until, !.chatId = l.chatId]
      [] route = "unmute" -> [row EXCEPT !.mutedUntil = Null, !.chatId = l.chatId]
      [] route = "block" ->
            [row EXCEPT !.isBlocked = TRUE,
                        !.blockReason = IF body.reason = Undef THEN Null ELSE Trim(body.reason),
                        !.chatId = Coalesce(l.chatId, l.found.chatId),
                        !.mutedUntil = Null]
      [] route = "unblock" ->
            [row EXCEPT !.isBlocked = FALSE, !.blockReason = Null,
                        !.chatId = Coalesce(l.chatId, l.found.chatId)]

\* prisma.user.update({ where: { id }, data })
ModUpdate(r) ==
    /\ pc[r] = "mod_update"
    /\ LET row == UserById(users, rq[r].target) IN
       IF row = NoUser
       THEN /\ HandlerThrows(r, "PrismaError")
            /\ UNCHANGED <<users, wrote>>
       ELSE /\ users' = (users \ {row}) \cup {ModData(rq[r].route, row, loc[r], rq[r].body)}
            /\ wrote' = [wrote EXCEPT ![r] = TRUE]
            /\ Answer(r, 200, "")
    /\ UNCHANGED <<purevars, checks, nextCid, admins, nextUid, nextAid, seed, rq, loc>>

----------------------------------------------------------------------------
(* The handlers of the checks router that requireAdmin guards: POST /checks, *)
(* PUT /checks/:id, DELETE /checks/:id, GET /checks/summary                  *)

NoCheck == [id |-> NoId, userId |-> NoId, amount |-> Null, note |-> Null]

CheckById(tbl, id) ==
    IF \E c \in tbl : c.id = id THEN CHOOSE c \in tbl : c.id = id ELSE NoCheck

\* new Prisma.Decimal(rounded.toFixed(2)) of the amounts of the model
toDecimal(amount) ==
    CASE amount = "5" -> "5.00"
      [] amount = "7.5" -> "7.50"
      [] OTHER -> amount

\* the data of prisma.check.create
CheckCreateData(id, req) ==
    [id |-> id, userId |-> req.target, amount |-> toDecimal(req.body.amount),
     note |-> IF req.body.note # Undef /\ Trim(req.body.note) # ""
              THEN Trim(req.body.note) ELSE Null]

\* the row after prisma.check.update with the members the body has
CheckUpdateData(row, body) ==
    LET withAmount == IF body.amount # Undef
                      THEN [row EXCEPT !.amount = toDecimal(body.amount)] ELSE row
    IN  IF body.note = Undef THEN withAmount
        ELSE [withAmount EXCEPT !.note = IF Trim(body.note) # "" THEN Trim(body.note)
                                         ELSE Null]

\* POST /checks: prisma.user.findUnique({ where: { id: payload.userId } }) (the
\* text of the 404 is Russian in the source)
CheckCreateFind(r) ==
    /\ pc[r] = "ccreate_find"
    /\ IF UserById(users, rq[r].target) = NoUser
       THEN Answer(r, 404, "check: user not found")
       ELSE pc' = [pc EXCEPT ![r] = "ccreate_create"] /\ resp' = resp
    /\ UNCHANGED <<purevars, dbvars, seed, rq, loc, wrote>>

\* POST /checks: prisma.check.create; Check_userId_fkey refuses a row whose
\* Account is gone
CheckCreate(r) ==
    /\ pc[r] = "ccreate_create"
    /\ IF UserById(users, rq[r].target) = NoUser
       THEN /\ HandlerThrows(r, "PrismaError")
            /\ UNCHANGED <<checks, nextCid, wrote>>
       ELSE /\ nextCid < MaxCheckRows
            /\ checks' = checks \cup {CheckCreateData(nextCid + 1, rq[r])}
            /\ nextCid' = nextCid + 1
            /\ wrote' = [wrote EXCEPT ![r] = TRUE]
            /\ Answer(r, 201, "")
    /\ UNCHANGED <<purevars, users, admins, nextUid, nextAid, seed, rq, loc>>

\* PUT /checks/:id: prisma.check.update({ where: { id }, data })
CheckUpdate(r) ==
    /\ pc[r] = "cupdate"
    /\ LET row == CheckById(checks, rq[r].target) IN
       IF row = NoCheck
       THEN /\ HandlerThrows(r, "PrismaError")
            /\ UNCHANGED <<checks, wrote>>
       ELSE /\ checks' = (checks \ {row}) \cup {CheckUpdateData(row, rq[r].body)}
            /\ wrote' = [wrote EXCEPT ![r] = TRUE]
            /\ Answer(r, 200, "")
    /\ UNCHANGED <<purevars, users, admins, nextUid, nextAid, nextCid, seed, rq, loc>>

\* DELETE /checks/:id: prisma.check.delete({ where: { id } })
CheckDelete(r) ==
    /\ pc[r] = "cdelete"
    /\ LET row == CheckById(checks, rq[r].target) IN
       IF row = NoCheck
       THEN /\ HandlerThrows(r, "PrismaError")
            /\ UNCHANGED <<checks, wrote>>
       ELSE /\ checks' = checks \ {row}
            /\ wrote' = [wrote EXCEPT ![r] = TRUE]
            /\ Answer(r, 204, "")
    /\ UNCHANGED <<purevars, users, admins, nextUid, nextAid, nextCid, seed, rq, loc>>

\* the rows of prisma.check.findMany({ where: { userId } }), of a request
\* that gives no date range
ChecksOf(tbl, userId) == {c \in tbl : c.userId = userId}

\* GET /checks up to its first store call and that call.  query.userId is
\* absent, 'me', or an id ("id": the id the request names).  For an
\* administrator, and for a caller who names no id, the call is the findMany
\* and the handler answers; for another caller it is the findUnique of the
\* id named (the texts of the 404 and the 403 are Russian in the source)
CheckListFirst(r) ==
    /\ pc[r] = "clist"
    /\ LET user == loc[r].userRecord
           isAdmin == loc[r].adminRecord # NoAdmin
           named == rq[r].body.userId = "id"
           target == UserById(users, rq[r].target)
           many(targetUserId) ==
               /\ loc' = [loc EXCEPT ![r].targetUserId = targetUserId]
               /\ pc' = [pc EXCEPT ![r] = "clist_many"]
               /\ resp' = resp
       IN  IF isAdmin \/ ~named
           THEN LET targetUserId == IF named THEN rq[r].target ELSE user.id IN
                /\ loc' = [loc EXCEPT ![r].targetUserId = targetUserId,
                                      ![r].listed = ChecksOf(checks, targetUserId)]
                /\ Answer(r, 200, "")
           ELSE IF rq[r].target # user.id
           THEN IF target = NoUser
                THEN Answer(r, 404, "check list: user not found") /\ loc' = loc
                ELSE IF target.isPartner
                THEN Answer(r, 403, "check list: forbidden") /\ loc' = loc
                ELSE many(target.id)
           ELSE IF target = NoUser \/ target.isPartner
                THEN Answer(r, 403, "check list: forbidden") /\ loc' = loc
                ELSE many(target.id)
    /\ UNCHANGED <<purevars, dbvars, seed, rq, wrote>>

\* GET /checks: prisma.check.findMany of a caller who is not an administrator
\* and named an id
CheckListMany(r) ==
    /\ pc[r] = "clist_many"
    /\ loc' = [loc EXCEPT ![r].listed = ChecksOf(checks, loc[r].targetUserId)]
    /\ Answer(r, 200, "")
    /\ UNCHANGED <<purevars, dbvars, seed, rq, wrote>>

\* an Account is made a partner: isPartner is a column that the handlers
\* read and none of them writes
SetPartner ==
    /\ Listening
    /\ \E u \in users :
          /\ ~u.isPartner
          /\ users' = (users \ {u}) \cup {[u EXCEPT !.isPartner = TRUE]}
    /\ UNCHANGED <<purevars, checks, nextCid, admins, nextUid, nextAid, seed, reqvars>>

\* GET /checks/summary: the handler reads the tables and answers
CheckSummary(r) ==
    /\ pc[r] = "csummary"
    /\ Answer(r, 200, "")
    /\ UNCHANGED <<purevars, dbvars, seed, rq, loc, wrote>>

\* every step a request in flight can take
Step(r) ==
    \/ AuthUpsert(r) \/ AuthLookup(r) \/ ProfileUpdate(r)
    \/ UserCreateFind(r) \/ UserCreate(r) \/ UserUpdateFind(r) \/ UserUpdate(r) \/ UserDelete(r)
    \/ AdminFind(r) \/ AdminEnsureUser(r) \/ AdminCreate(r) \/ AdminUpdate(r)
    \/ AdminDelete(r)
    \/ ModFind(r) \/ ModChat(r) \/ ModUpdate(r)
    \/ CheckCreateFind(r) \/ CheckCreate(r) \/ CheckUpdate(r) \/ CheckDelete(r)
    \/ CheckSummary(r) \/ CheckListFirst(r) \/ CheckListMany(r)

----------------------------------------------------------------------------
(* Initial state: an empty store, seeding about to run, no request yet *)

InitStore ==
    /\ users = {}
    /\ admins = {}
    /\ nextUid = 0
    /\ nextAid = 0
    /\ checks = {}
    /\ nextCid = 0

InitRequests ==
    /\ rq = [r \in Reqs |-> NoRequest]
    /\ pc = [r \in Reqs |-> "idle"]
    /\ loc = [r \in Reqs |-> NoLocals]
    /\ resp = [r \in Reqs |-> NoResponse]
    /\ wrote = [r \in Reqs |-> FALSE]

InitSeed ==
    \E ids \in SeedLists : seed = [ids |-> ids, at |-> [i \in DOMAIN ids |-> "user"]]

\* what withTelegramAction has returned or thrown: nothing yet
NoValue == [kind |-> "none", at |-> 0, name |-> ""]

\* no call of withTelegramAction under test
NoRetry == [script |-> <<>>, attempt |-> 0, calls |-> 0, state |-> "off", value |-> NoValue]

\* the pure-function harness is off in the specifications of the server
PureOff ==
    /\ vcase = NoCase
    /\ botToken = "S1"
    /\ vpc = "off"
    /\ vresult = FALSE
    /\ presult = JsonNull
    /\ retry = NoRetry

Seeding == \E i \in 1..2 : SeedUser(i) \/ SeedAdmin(i)

----------------------------------------------------------------------------
(* The pure functions applied to every payload of the bounded sets *)

InitPure ==
    /\ vcase \in FieldCases(MaxFields) \cup GarbageCases
    /\ botToken = "S1"
    /\ vpc = "start"
    /\ vresult = FALSE
    /\ presult = JsonNull
    /\ retry = NoRetry
    /\ InitStore
    /\ InitRequests
    /\ seed = [ids |-> <<>>, at |-> <<>>]

\* verifyTelegramInitData applied to the payload
ApplyVerify ==
    /\ vpc \in {"start", "parsed"}
    /\ vresult' = verifyTelegramInitData(vcase.raw, botToken)
    /\ vpc' = IF vpc = "start" THEN "verified" ELSE "both"
    /\ UNCHANGED <<vcase, botToken, presult, retry, dbvars, seed, reqvars>>

\* parseTelegramUser applied to the payload
ApplyParse ==
    /\ vpc \in {"start", "verified"}
    /\ presult' = parseTelegramUser(vcase.raw)
    /\ vpc' = IF vpc = "start" THEN "parsed" ELSE "both"
    /\ UNCHANGED <<vcase, botToken, vresult, retry, dbvars, seed, reqvars>>

NextPure == ApplyVerify \/ ApplyParse

SpecPure == InitPure /\ [][NextPure]_vars

----------------------------------------------------------------------------
(* withTelegramAction called with every action of the bounded set: an       *)
(* action is the list of what its successive calls do, "ok" or the name of  *)
(* the error thrown                                                         *)

Scripts == [1..MaxScript -> {"ok", "ea", "eb"}]

\* what the n-th call of the action does
ActionOutcome(script, n) == IF n \in DOMAIN script THEN script[n] ELSE "ok"

InitRetry ==
    /\ vcase = NoCase
    /\ botToken = "S1"
    /\ vpc = "off"
    /\ vresult = FALSE
    /\ presult = JsonNull
    /\ \E script \in Scripts :
          retry = [script |-> script, attempt |-> 1, calls |-> 0, state |-> "running",
                   value |-> NoValue]
    /\ InitStore
    /\ InitRequests
    /\ seed = [ids |-> <<>>, at |-> <<>>]

\* one pass of the for loop: the test of attempt, await action(), and the
\* return or the catch; past the last pass the function returns undefined
withTelegramAction ==
    /\ retry.state = "running"
    /\ IF retry.attempt > MAX_CHAT_ACTION_ATTEMPTS
       THEN retry' = [retry EXCEPT !.state = "returned"]
       ELSE LET outcome == ActionOutcome(retry.script, retry.attempt)
                pass == ChatAttempt(retry.attempt, outcome)
                value == [kind |-> IF pass = "return" THEN "result" ELSE "error",
                          at |-> retry.attempt, name |-> outcome]
            IN  retry' = [retry EXCEPT
                            !.calls = @ + 1,
                            !.attempt = IF pass = "retry" THEN @ + 1 ELSE @,
                            !.state = CASE pass = "return" -> "returned"
                                        [] pass = "throw" -> "threw"
                                        [] OTHER -> @,
                            !.value = IF pass = "retry" THEN @ ELSE value]
    /\ UNCHANGED <<vcase, botToken, vpc, vresult, presult, dbvars, seed, reqvars>>

NextRetry == withTelegramAction

\* the event loop runs a pending continuation
SpecRetry == InitRetry /\ [][NextRetry]_vars /\ WF_vars(NextRetry)

----------------------------------------------------------------------------
(* The server reached through GET /auth/session with every kind of header *)

GateHeaders ==
    { NoHeader,
      Header(NoCase),
      SignedFor("{id:1}"),
      SignedFor("{id:1,names:a}"),
      SignedFor("{id:2}"),
      SignedFor("{}"),
      SignedFor("null"),
      SignedFor("0"),
      SignedFor("{bad"),
      Header(MkCase(<<UserField("{id:1}")>>, "S2", IdOp, "signed")),
      Header(MkCase(<<UserField("{id:1}")>>, "S1", IdOp, "junk")),
      Header(MkCase(<<UserField("{bad")>>, "S1", IdOp, "junk")),
      Header(MkCase(<<UserField("{id:1}")>>, "S1", ReplaceOp(1, UserField("{id:2}")), "signed")),
      Header(MkCase(<<FieldA1, UserField("{id:1}")>>, "S1", ReplaceOp(1, FieldA2), "signed")),
      Header(MkCase(<<FieldAX1, UserField("{id:1}")>>, "S1", ReplaceOp(1, FieldAXeq1), "signed")) }

GateRequests ==
    { Request("session", h, NoId, EmptyBody, "none") : h \in GateHeaders }
    \cup { Request("session", SignedFor("{id:1}"), NoId, EmptyBody, f) :
            f \in {"upsert", "lookup"} }

ArriveGate(r) == AuthBegin(r, GateRequests)

InitServer == PureOff /\ InitStore /\ InitRequests /\ InitSeed

NextGate ==
    \/ Seeding
    \/ \E r \in Reqs : ArriveGate(r) \/ AuthUpsert(r) \/ AuthLookup(r)

SpecGate == InitServer /\ [][NextGate]_vars

----------------------------------------------------------------------------
(* The server with the /users and /admins routers, called by the seeded     *)
(* administrator (Telegram id 2) while the user with Telegram id 1 signs in *)

User1 == SignedFor("{id:1}")

Admin2 == SignedFor("{id:2}")

WithTelegramId(t) == [EmptyBody EXCEPT !.telegramId = t]

TablesRequests ==
    { Request("session", h, NoId, EmptyBody, "none") : h \in {User1, Admin2} }
    \cup { Request("adminDelete", Admin2, 1, EmptyBody, "none") }
    \cup { Request("userCreate", Admin2, NoId, WithTelegramId(t), "none") : t \in {"1", " 1"} }
    \cup { Request("userUpdate", Admin2, id, WithTelegramId("1"), "none") : id \in {1, 2} }
    \cup { Request("userDelete", Admin2, 2, EmptyBody, "none") }
    \cup { Request("adminCreate", Admin2, NoId, WithTelegramId("1"), "none") }
    \cup { Request("adminUpdate", Admin2, 1, WithTelegramId("1"), "none") }

ArriveTables(r) == AuthBegin(r, TablesRequests)

NextTables ==
    \/ Seeding
    \/ \E r \in Reqs :
        \/ ArriveTables(r) \/ AuthUpsert(r) \/ AuthLookup(r)
        \/ AdminDelete(r)
        \/ UserCreateFind(r) \/ UserCreate(r) \/ UserUpdateFind(r) \/ UserUpdate(r)
        \/ UserDelete(r)
        \/ AdminFind(r) \/ AdminEnsureUser(r) \/ AdminCreate(r) \/ AdminUpdate(r)

SpecTables == InitServer /\ [][NextTables]_vars

----------------------------------------------------------------------------
(* The server with the moderation routes and the profile edits, all on the  *)
(* Account of the seeded administrator, who signs in again meanwhile and    *)
(* makes an Account for Telegram id 1                                       *)

Admin2Named == SignedFor("{id:2,names:a}")

ModerationRequests ==
    { Request("session", h, NoId, EmptyBody, "none") : h \in {Admin2, Admin2Named} }
    \cup { Request("mute", Admin2, 1, [EmptyBody EXCEPT !.durationMinutes = "5", !.chatId = "c"],
                   "none") }
    \cup { Request("unmute", Admin2, 1, EmptyBody, "none") }
    \cup { Request("block", Admin2, 1, [EmptyBody EXCEPT !.reason = "r"], "none") }
    \cup { Request("unblock", Admin2, 1, EmptyBody, "none") }
    \cup { Request("profilePatch", Admin2, NoId,
                   [EmptyBody EXCEPT !.username = "b", !.phone = "b"], "none") }
    \cup { Request("userUpdate", Admin2, 1,
                   [EmptyBody EXCEPT !.photoUrl = "b", !.payoutUsdtTrc20 = "b"], "none") }
    \cup { Request("userCreate", Admin2, NoId, WithTelegramId("1"), "none") }

ArriveModeration(r) == AuthBegin(r, ModerationRequests)

NextModeration ==
    \/ Seeding
    \/ \E r \in Reqs :
        \/ ArriveModeration(r) \/ AuthUpsert(r) \/ AuthLookup(r)
        \/ ProfileUpdate(r) \/ UserUpdate(r)
        \/ UserCreateFind(r) \/ UserCreate(r)
        \/ ModFind(r) \/ ModChat(r) \/ ModUpdate(r)

SpecModeration == InitServer /\ [][NextModeration]_vars


----------------------------------------------------------------------------
(* The server given validly signed payloads whose user field is JSON of     *)
(* every shape                                                              *)

ShapeHeaders ==
    { SignedFor(t) : t \in {"{id:1}", "{}", "null", "0", "1", "str", "[]", "{id:str3}"} }

ShapeRequests == { Request("session", h, NoId, EmptyBody, "none") : h \in ShapeHeaders }

ArriveShape(r) == AuthBegin(r, ShapeRequests)

NextShape ==
    \/ Seeding
    \/ \E r \in Reqs : ArriveShape(r) \/ AuthUpsert(r) \/ AuthLookup(r)

SpecShape == InitServer /\ [][NextShape]_vars

----------------------------------------------------------------------------
(* The server while grants are created and deleted: the seeded administrator *)
(* (Telegram id 2) grants user 1, deletes grants (its own is row 1), blocks  *)
(* Accounts, and both sign in                                                *)

GrantsRequests ==
    { Request("session", h, NoId, EmptyBody, "none") : h \in {User1, Admin2} }
    \cup { Request("adminCreate", Admin2, NoId, WithTelegramId("1"), "none") }
    \cup { Request("adminDelete", Admin2, id, EmptyBody, "none") : id \in {1, 2} }
    \cup { Request("block", Admin2, id, EmptyBody, "none") : id \in {1, 2} }

ArriveGrants(r) == AuthBegin(r, GrantsRequests)

NextGrants ==
    \/ Seeding
    \/ \E r \in Reqs :
        \/ ArriveGrants(r) \/ AuthUpsert(r) \/ AuthLookup(r)
        \/ AdminFind(r) \/ AdminEnsureUser(r) \/ AdminCreate(r) \/ AdminDelete(r)
        \/ ModFind(r) \/ ModUpdate(r)

SpecGrants == InitServer /\ [][NextGrants]_vars

----------------------------------------------------------------------------
(* The server with the routes requireAdmin guards, called by user 1, who has *)
(* no grant, while the seeded administrator (Telegram id 2) works on checks  *)

WithAmount(a) == [EmptyBody EXCEPT !.amount = a]

ChecksRequests ==
    { Request(route, User1, 1, [WithAmount("5") EXCEPT !.telegramId = "1"], "none") :
        route \in {"userCreate", "userDelete", "block", "adminCreate", "adminDelete",
                   "checkCreate", "checkUpdate", "checkDelete", "checkSummary"} }
    \cup { Request("checkCreate", Admin2, 1, [WithAmount("5") EXCEPT !.note = " 1"], "none"),
           Request("checkUpdate", Admin2, 1, WithAmount("7.5"), "none"),
           Request("checkDelete", Admin2, 1, EmptyBody, "none"),
           Request("checkSummary", Admin2, NoId, EmptyBody, "none") }

ArriveChecks(r) == AuthBegin(r, ChecksRequests)

NextChecks ==
    \/ Seeding
    \/ \E r \in Reqs :
        \/ ArriveChecks(r) \/ AuthUpsert(r) \/ AuthLookup(r)
        \/ CheckCreateFind(r) \/ CheckCreate(r) \/ CheckUpdate(r) \/ CheckDelete(r)
        \/ CheckSummary(r)

SpecChecks == InitServer /\ [][NextChecks]_vars

----------------------------------------------------------------------------
(* The routes index: GET /health, and behind telegramAuth a route of each    *)
(* router, asked for by user 1, by the seeded administrator, by a caller who *)
(* forges the administrator's identity, by one who sends no header and by    *)
(* one whose signed payload has no identity                                  *)

\* the identity of the administrator with a hash that is not the HMAC
Forged2 == Header(MkCase(<<UserField("{id:2}")>>, "S1", IdOp, "junk"))

RoutesRequests ==
    { Request("session", h, NoId, EmptyBody, "none") : h \in {User1, Forged2} }
    \cup { Request("profilePatch", User1, NoId, [EmptyBody EXCEPT !.username = "b"], "none") }
    \cup { Request("userDelete", h, 2, EmptyBody, "none") :
            h \in {Admin2, Forged2, NoHeader, SignedFor("null")} }
    \cup { Request("adminDelete", h, 1, EmptyBody, "none") : h \in {Admin2, Forged2} }

NextRoutes ==
    \/ Seeding
    \/ \E r \in Reqs :
        \/ Health(r, {NoHeader, Forged2})
        \/ AuthBegin(r, RoutesRequests) \/ AuthUpsert(r) \/ AuthLookup(r)
        \/ ProfileUpdate(r) \/ UserDelete(r) \/ AdminDelete(r)

SpecRoutes == InitServer /\ [][NextRoutes]_vars

----------------------------------------------------------------------------
(* The server given payloads that carry auth_date, the time Telegram signed  *)
(* them at: "1" is long ago, "2" is now.  Each can be presented twice.       *)

AuthDate(t) == <<<<"auth_date">>, <<t>>>>

ReplayRequests ==
    { Request("session", Header(MkCase(<<AuthDate(t), UserField("{id:1}")>>, "S1", op, "signed")),
              NoId, EmptyBody, "none") :
        t \in {"1", "2"}, op \in {IdOp, ReplaceOp(1, AuthDate("2"))} }
    \cup { Request("session", User1, NoId, EmptyBody, "none") }

NextReplay ==
    \/ Seeding
    \/ \E r \in Reqs : AuthBegin(r, ReplayRequests) \/ AuthUpsert(r) \/ AuthLookup(r)

SpecReplay == InitServer /\ [][NextReplay]_vars

----------------------------------------------------------------------------
(* The server with the moderation routes while the Telegram API fails: the   *)
(* seeded administrator (Telegram id 2, Account 1) is muted, unmuted,        *)
(* blocked and unblocked, with a chat id and without one; the chat action    *)
(* fails once, or fails at every attempt.  Account 2 is made with a          *)
(* telegramId that is not a number, and blocked.                             *)

ChatRequests ==
    { Request(route, Admin2, 1, [EmptyBody EXCEPT !.durationMinutes = "5", !.chatId = "c"],
              "chat3") : route \in ModRoutes }
    \cup { Request(route, Admin2, 1, [EmptyBody EXCEPT !.durationMinutes = "5", !.chatId = "c"],
                   "chat1") : route \in {"mute", "block"} }
    \cup { Request(route, Admin2, 1, [EmptyBody EXCEPT !.reason = "r"], "chat3") :
            route \in {"block", "unblock"} }
    \cup { Request("userCreate", Admin2, NoId, WithTelegramId("x"), "none"),
           Request("block", Admin2, 2, EmptyBody, "none") }

NextChat ==
    \/ Seeding
    \/ \E r \in Reqs :
        \/ AuthBegin(r, ChatRequests) \/ AuthUpsert(r) \/ AuthLookup(r)
        \/ UserCreateFind(r) \/ UserCreate(r)
        \/ ModFind(r) \/ ModChat(r) \/ ModUpdate(r)

SpecChat == InitServer /\ [][NextChat]_vars

----------------------------------------------------------------------------
(* The server with POST /users/:id/mute called by the seeded administrator  *)
(* on its own Account (1) and on an Account that does not exist (3), with   *)
(* and without a chat id, a duration, and an end date that can be read      *)

MuteBodies ==
    { [EmptyBody EXCEPT !.durationMinutes = "5"],
      [EmptyBody EXCEPT !.durationMinutes = "5", !.chatId = " "],
      [EmptyBody EXCEPT !.durationMinutes = "5", !.chatId = " 1", !.until = "bad"],
      [EmptyBody EXCEPT !.chatId = "c", !.until = "t1"],
      [EmptyBody EXCEPT !.chatId = "c", !.until = "bad"] }

MuteRequests ==
    { Request("mute", Admin2, 1, body, "none") : body \in MuteBodies }
    \cup { Request("mute", Admin2, 3, [EmptyBody EXCEPT !.chatId = "c", !.until = "bad"], "none"),
           Request("mute", Admin2, 3, EmptyBody, "none") }

NextMute ==
    \/ Seeding
    \/ \E r \in Reqs :
        \/ AuthBegin(r, MuteRequests) \/ AuthUpsert(r) \/ AuthLookup(r)
        \/ ModFind(r) \/ ModChat(r) \/ ModUpdate(r)

SpecMute == InitServer /\ [][NextMute]_vars

----------------------------------------------------------------------------
(* The server with GET /checks: user 1, who has no grant, and the seeded    *)
(* administrator (Telegram id 2) list checks, naming no Account, 'me', or   *)
(* Account 1, 2 or 3, while the administrator adds a check and Accounts are *)
(* made partners                                                            *)

ListQuery(q) == [EmptyBody EXCEPT !.userId = q]

ListRequests ==
    { Request("checkList", User1, NoId, ListQuery(q), "none") : q \in {Undef, "me"} }
    \cup { Request("checkList", User1, id, ListQuery("id"), "none") : id \in {1, 2, 3} }
    \cup { Request("checkList", Admin2, id, ListQuery("id"), "none") : id \in {1, 2} }
    \cup { Request("checkCreate", Admin2, id, WithAmount("5"), "none") : id \in {1, 2} }

NextList ==
    \/ Seeding
    \/ SetPartner
    \/ \E r \in Reqs :
        \/ AuthBegin(r, ListRequests) \/ AuthUpsert(r) \/ AuthLookup(r)
        \/ CheckCreateFind(r) \/ CheckCreate(r)
        \/ CheckListFirst(r) \/ CheckListMany(r)

SpecList == InitServer /\ [][NextList]_vars

----------------------------------------------------------------------------
(* Properties of the pure functions (under SpecPure) *)

Verified == vpc \in {"verified", "both"}

Parsed == vpc \in {"parsed", "both"}

\* the value of the first hash field of the payload, <<>> when it has none
FirstHash ==
    CASE vcase.kind = "garbage" -> <<>>
      [] vcase.layout \in {"none", "empty"} -> <<>>
      [] vcase.layout \in {"junk", "junkThenSigned"} -> JunkDigest
      [] OTHER -> SignerDigest(vcase.signed, vcase.secret)

\* the sorted key=value lines of a list of fields
CanonicalOf(fields) == SignerLines(SortByKey(fields))

\* the hex HMAC-SHA256, keyed by SHA256(S), of a canonical string
ExpectedDigest(secret, canonical) ==
    <<ToString(<<"hmac", <<"sha256", secret>>, canonical>>)>>

\* C6: verifyTelegramInitData(payload, S) is true iff the payload's hash field
\* equals the hex HMAC-SHA256, keyed by SHA256(S), of the canonical string of
\* its other fields; so a payload signed with S verifies under S and under no
\* other secret.
C6_VerifyIffHmac ==
    (Verified /\ vcase.kind = "fields") =>
        /\ vresult = (FirstHash = ExpectedDigest(botToken, CanonicalOf(vcase.sent)))
        /\ (vcase.op.t = "id" /\ vcase.layout \in {"signed", "signedFront"})
              => (vresult = (vcase.secret = botToken))

C6_Witness ==
    /\ Verified
    /\ vresult = TRUE
    /\ vcase.op.t = "id"
    /\ Len(vcase.signed) = 2
    /\ vcase.secret = botToken

\* every order of a list
Orderings(list) ==
    LET n == Len(list) IN
    { [i \in 1..n |-> list[p[i]]] :
        p \in {q \in [1..n -> 1..n] : \A i, j \in 1..n : q[i] = q[j] => i = j} }

\* the entries of the payload under test, hash fields included
SentEntries == WithHash(vcase.sent, vcase.layout, SignerDigest(vcase.signed, vcase.secret))

\* every order of the payload's fields gives the result the payload gave
OrderInsensitive ==
    \A perm \in Orderings(SentEntries) :
        verifyTelegramInitData(EncodeQuery(perm), botToken) = vresult

\* no two fields whose keys the sort comparator ranks equal
NoEqualKeys(fields) ==
    \A i, j \in 1..Len(fields) : i # j => LocaleCompare(fields[i][1], fields[j][1]) # 0

OneHashAtMost == vcase.layout \in {"none", "empty", "junk", "signed", "signedFront"}

\* C8 as stated: verifyTelegramInitData gives the same result for every
\* permutation of the fields of a payload (with its one hash).
C8_Original == (Verified /\ vcase.kind = "fields" /\ OneHashAtMost) => OrderInsensitive

\* C8 amended: the same result for every permutation of a payload that holds
\* one hash field at most and no two fields whose keys compare equal.
C8_OrderInsensitive ==
    (/\ Verified
     /\ vcase.kind = "fields"
     /\ OneHashAtMost
     /\ NoEqualKeys(vcase.sent)) => OrderInsensitive

C8_Witness ==
    /\ Verified
    /\ vcase.op.t = "swap"
    /\ NoEqualKeys(vcase.sent)
    /\ vcase.layout = "signedFront"
    /\ vresult = TRUE

\* C9: verifyTelegramInitData returns false for an empty payload, for a payload
\* with no hash field or an empty hash value and for a string that is no list
\* of key=value pairs, and writes no table.
C9_RejectsWithoutHash ==
    (/\ Verified
     /\ \/ vcase.raw = <<>>
        \/ vcase.kind = "garbage"
        \/ vcase.layout \in {"none", "empty"})
    => (vresult = FALSE /\ users = {} /\ admins = {})

C9_Witness ==
    /\ Verified
    /\ vcase.kind = "garbage"
    /\ vcase.raw = <<"hash", "=">>
    /\ vresult = FALSE

\* the identity that the first user field of a list of fields denotes
ExpectedIdentity(fields) ==
    LET userFields == SelectSeq(fields, LAMBDA f : f[1] = <<"user">>) IN
    IF userFields = <<>> THEN JsonNull
    ELSE IF userFields[1][2] = <<"{id:1}">>
         THEN [kind |-> "object", hasId |-> TRUE, id |-> 1,
               username |-> Null, first_name |-> Null, last_name |-> Null,
               language_code |-> Null, photo_url |-> Null]
         ELSE JsonNull

\* C10: parseTelegramUser returns null when the user field is missing or is not
\* valid JSON and the parsed identity when it is; the result is a function of
\* the user field alone, the same whatever the hash fields are.
C10_ParseDependsOnUserOnly ==
    Parsed =>
        /\ presult = ExpectedIdentity(vcase.sent)
        /\ vcase.kind = "fields" =>
              \A layout \in HashLayouts :
                  parseTelegramUser(EncodeQuery(WithHash(vcase.sent, layout, JunkDigest)))
                      = presult

C10_Witness ==
    /\ vpc = "both"
    /\ vresult = FALSE
    /\ presult.kind = "object"
    /\ presult.id = 1

----------------------------------------------------------------------------
(* Properties of telegramAuth as a gate (under SpecGate) *)

\* telegramAuth has returned for request r
AuthOver(r) == pc[r] \notin {"idle", "auth_upsert", "auth_lookup"}

\* the header value of request r
RawOf(r) == rq[r].header.case.raw

HeaderMissing(r) == ~rq[r].header.present \/ RawOf(r) = <<>>

Failed(r, outcome) ==
    /\ resp[r] = AuthFailureResponse(outcome)
    /\ ~loc[r].hasContext
    /\ loc[r].nextCalls = 0

ContextAttached(r) ==
    /\ loc[r].hasContext
    /\ loc[r].nextCalls = 1
    /\ ~loc[r].nextError
    /\ resp[r].status # 401

PassedOn(r) ==
    /\ ~loc[r].hasContext
    /\ loc[r].nextCalls = 1
    /\ loc[r].nextError
    /\ resp[r] = Response(500, "Internal server error")

\* parseTelegramUser gave null or another value that !telegramUser takes for
\* none (the number 0)
NoIdentity(v) == v = JsonNull \/ v = JsonNumber(0)

\* C5 as stated: Missing, else InvalidSignature, else MalformedIdentity, else a
\* context is attached and next() is called once.
C5_Original ==
    \A r \in Reqs : AuthOver(r) =>
        IF HeaderMissing(r) THEN Failed(r, "Missing")
        ELSE IF ~verifyTelegramInitData(RawOf(r), botToken) THEN Failed(r, "InvalidSignature")
        ELSE IF parseTelegramUser(RawOf(r)) = JsonNull THEN Failed(r, "MalformedIdentity")
        ELSE ContextAttached(r)

\* C5 amended: Missing, else InvalidSignature, else MalformedIdentity (also for
\* an identity that is a falsy JSON value); else, when
\* the identity has no id or a store call of telegramAuth throws, the error is
\* passed to next once, no context is attached and the answer is 500; else a
\* context is attached and next() is called once.  No request has a failure
\* response and a context, and the two diagnostics differ.
C5_OutcomeOrder ==
    /\ \A r \in Reqs : AuthOver(r) =>
        IF HeaderMissing(r) THEN Failed(r, "Missing")
        ELSE IF ~verifyTelegramInitData(RawOf(r), botToken) THEN Failed(r, "InvalidSignature")
        ELSE IF NoIdentity(parseTelegramUser(RawOf(r))) THEN Failed(r, "MalformedIdentity")
        ELSE IF ~parseTelegramUser(RawOf(r)).hasId \/ rq[r].fault # "none" THEN PassedOn(r)
        ELSE ContextAttached(r)
    /\ \A r \in Reqs : ~(loc[r].hasContext /\ resp[r].status \in {401, 500})
    /\ \A r, q \in Reqs :
        (Failed(r, "MalformedIdentity") /\ Failed(q, "InvalidSignature")) => resp[r] # resp[q]

\* one request was answered MalformedIdentity; another, validly signed for an
\* identity without id, was passed on to the error handler
C5_Witness ==
    \E r, q \in Reqs :
        /\ Failed(r, "MalformedIdentity")
        /\ verifyTelegramInitData(RawOf(r), botToken)
        /\ PassedOn(q)
        /\ rq[q].fault = "none"

\* request r carries a payload some field of which was changed after signing,
\* with the hash kept, or the signed fields with another hash
Tampered(r) ==
    /\ rq[r].header.present
    /\ rq[r].header.case.kind = "fields"
    /\ rq[r].header.case.secret = botToken
    /\ \/ rq[r].header.case.op.t = "replace" /\ rq[r].header.case.layout = "signed"
       \/ rq[r].header.case.op.t = "id" /\ rq[r].header.case.layout = "junk"

\* the change left the data-check string as the signer wrote it
SameDataCheckString(r) ==
    /\ rq[r].header.case.layout = "signed"
    /\ CanonicalOf(rq[r].header.case.sent) = SignerLines(rq[r].header.case.signed)

Rejected(r) ==
    /\ ~verifyTelegramInitData(RawOf(r), botToken)
    /\ Failed(r, "InvalidSignature")
    /\ ~wrote[r]
    /\ loc[r].userRecord = NoUser

\* C7 as stated: a payload with a key or value changed and the hash kept, or
\* with the hash changed, fails verification and is answered InvalidSignature
\* with no Account written.
C7_Original == \A r \in Reqs : (AuthOver(r) /\ Tampered(r)) => Rejected(r)

\* C7 amended: ... a key or value changed in a way that changes the data-check
\* string (the sorted key=value lines joined by line feeds) ...
C7_TamperRejected ==
    \A r \in Reqs : (AuthOver(r) /\ Tampered(r) /\ ~SameDataCheckString(r)) => Rejected(r)

C7_Witness ==
    \E r, q \in Reqs :
        /\ AuthOver(r) /\ Tampered(r) /\ rq[r].header.case.op.t = "replace" /\ Rejected(r)
        /\ AuthOver(q) /\ Tampered(q) /\ rq[q].header.case.layout = "junk" /\ Rejected(q)

----------------------------------------------------------------------------
(* Properties of the Account table *)

\* request r carries a payload signed with the bot token whose identity has an
\* id, and no store call of its telegramAuth fails
ValidFor(r) ==
    /\ rq[r].header.present
    /\ verifyTelegramInitData(RawOf(r), botToken)
    /\ parseTelegramUser(RawOf(r)).hasId
    /\ rq[r].fault = "none"

\* the upsert of telegramAuth has run for request r
PastUpsert(r) == pc[r] \notin {"idle", "auth_upsert"}

AccountsOf(tid) == {u \in users : u.telegramId = tid}

\* C1: two telegramAuth requests with validly signed payloads for one Telegram
\* id, run concurrently: once both upserts have run there is exactly one
\* Account row with that telegramId, both requests hold that row's id, and each
\* request, when telegramAuth is over, has its context and no failure response.
C1_ConcurrentFirstAuth ==
    \A r, q \in Reqs :
        (/\ r # q
         /\ ValidFor(r) /\ ValidFor(q)
         /\ parseTelegramUser(RawOf(r)).id = parseTelegramUser(RawOf(q)).id
         /\ PastUpsert(r) /\ PastUpsert(q))
        => LET tid == IdToString(parseTelegramUser(RawOf(r)).id) IN
           /\ Cardinality(AccountsOf(tid)) = 1
           /\ \A u \in AccountsOf(tid) :
                loc[r].userRecord.id = u.id /\ loc[q].userRecord.id = u.id
           /\ AuthOver(r) => ContextAttached(r)
           /\ AuthOver(q) => ContextAttached(q)

\* both requests are in flight between their upsert and their admin lookup,
\* and the Account they share is the only one ever created
C1_Witness ==
    /\ seed.ids = <<>>
    /\ nextUid = 1
    /\ pc[1] = "auth_lookup" /\ pc[2] = "auth_lookup"
    /\ ValidFor(1) /\ ValidFor(2)
    /\ loc[1].telegramId = loc[2].telegramId
    /\ loc[1].userRecord # loc[2].userRecord

\* C2: no two Account rows share a telegramId (nor an id), in every state that
\* telegramAuth, POST /users, PUT /users/:id, POST /admins, PUT /admins/:id and
\* the seeding of administrators can reach in any interleaving.
C2_UniqueTelegramId ==
    \A u, v \in users : (u.telegramId = v.telegramId \/ u.id = v.id) => u = v

\* a POST /users lost the race for its telegramId: its findUnique saw no row,
\* its create met the unique index, and the row of the winner is there
C2_Witness ==
    \E r \in Reqs :
        /\ rq[r].route = "userCreate"
        /\ pc[r] = "done"
        /\ resp[r] = Response(500, "Internal server error")
        /\ loc[r].hasContext
        /\ AccountsOf(Trim(rq[r].body.telegramId)) # {}

\* the columns telegramAuth is not to touch
Frame(u) ==
    <<u.id, u.telegramId, u.isBlocked, u.blockReason, u.mutedUntil, u.payoutUsdtTrc20,
      u.payoutUsdtBep20, u.chatId, u.phone, u.bio>>

\* the columns telegramAuth mirrors from the identity
Mirror(u) == <<u.username, u.firstName, u.lastName, u.languageCode, u.photoUrl>>

\* the values the identity gives for them, null when it omits one
MirrorOf(tg) ==
    <<tg.username, tg.first_name, tg.last_name, tg.language_code, tg.photo_url>>

\* this step is the upsert of telegramAuth for request r
UpsertStepOf(r) == pc[r] = "auth_upsert" /\ pc'[r] = "auth_lookup"

\* C3: the upsert of telegramAuth leaves isBlocked, blockReason, mutedUntil, the
\* payout columns, chatId, phone and bio of every Account as they are in the
\* state it runs in, whatever other requests (mute, unmute, block, unblock,
\* profile or admin edit) have written before or are in flight.
C3_AuthKeepsModeration ==
    [][ \A r \in Reqs : UpsertStepOf(r) =>
            \A u \in users : \E v \in users' : Frame(v) = Frame(u) ]_vars

\* a block of the Account found its row, telegramAuth of another request then
\* refreshed the row from an identity with other names, and the row is blocked
C3_Witness ==
    /\ rq[1].route = "block" /\ pc[1] = "done" /\ wrote[1]
    /\ rq[2].route = "session" /\ pc[2] = "auth_lookup"
    /\ \E u \in users :
        /\ u.id = loc[2].userRecord.id
        /\ u.id = loc[1].found.id
        /\ u.isBlocked /\ u.blockReason = "r"
        /\ Mirror(u) = MirrorOf(loc[2].telegramUser)
        /\ Mirror(u) # Mirror(loc[1].found)

\* C4: the upsert of telegramAuth leaves the Account of the presented identity
\* with username, firstName, lastName, languageCode and photoUrl equal to the
\* identity's values (null for one it omits), whatever they were, and that row
\* is the user of the request's context.
C4_AuthMirrorsIdentity ==
    [][ \A r \in Reqs : UpsertStepOf(r) =>
            LET tg == parseTelegramUser(RawOf(r))
                rows == {u \in users' : u.telegramId = IdToString(tg.id)}
            IN  /\ rows # {}
                /\ \A u \in rows : Mirror(u) = MirrorOf(tg) /\ loc'[r].userRecord = u ]_vars

\* a profile edit or an admin edit wrote "b" into mirrored columns, and the
\* telegramAuth of the only other request has put the identity's values back
C4_Witness ==
    /\ rq[1].route \in {"profilePatch", "userUpdate"} /\ pc[1] = "done" /\ wrote[1]
    /\ resp[1].status = 200
    /\ pc[2] = "auth_lookup"
    /\ \E u \in users :
        /\ u.id = loc[2].userRecord.id
        /\ u.id = loc[1].userRecord.id
        /\ Mirror(u) = MirrorOf(parseTelegramUser(RawOf(2)))
        /\ "b" \in {u.phone, u.payoutUsdtTrc20}

----------------------------------------------------------------------------
(* Properties of the identity's shape (under SpecShape) *)

\* the user field is valid JSON that is not an object with a numeric id
ShapeMismatch(v) == v.kind \in {"number", "string", "array", "object_string_id"} \/
                    (v.kind = "object" /\ ~v.hasId)

\* C11: a validly signed payload whose user field is valid JSON but not an
\* object with a numeric id is answered MalformedIdentity, and no Account is
\* created or updated for it.
C11_ShapeFailsClosed ==
    \A r \in Reqs :
        (/\ AuthOver(r)
         /\ verifyTelegramInitData(RawOf(r), botToken)
         /\ JsonParse(RawUser(URLSearchParams(RawOf(r))).val).ok
         /\ ShapeMismatch(JsonParse(RawUser(URLSearchParams(RawOf(r))).val).val))
        => (Failed(r, "MalformedIdentity") /\ ~wrote[r])

----------------------------------------------------------------------------
(* What the caller sees of a rejection (under SpecGate) *)

\* C12: a request rejected because the header is missing and a request rejected
\* because the signature does not verify get the same HTTP status and the same
\* response body.
C12_SameFailureResponse ==
    \A r, q \in Reqs :
        (/\ AuthOver(r) /\ HeaderMissing(r)
         /\ AuthOver(q) /\ ~HeaderMissing(q)
         /\ ~verifyTelegramInitData(RawOf(q), botToken))
        => resp[r] = resp[q]

----------------------------------------------------------------------------
(* Properties of the admin of the context (under SpecGrants) *)

\* this step is the admin lookup of telegramAuth for request r, and it attaches
\* the context
LookupStepOf(r) == pc[r] = "auth_lookup" /\ loc'[r].hasContext

\* the AdminGrant rows whose telegramId is the decimal string of the id of the
\* identity request r presents
GrantsOf(r) == {a \in admins : a.telegramId = IdToString(parseTelegramUser(RawOf(r)).id)}

\* C13: the admin of the context is non-null exactly when, at the moment of
\* the lookup, an AdminGrant row has the decimal string of the identity's id
\* as its telegramId, and it is that row; nothing of the Account (blocked or
\* not) enters.  So a sign-in after a grant was created has its admin, and a
\* sign-in after it was deleted has none.
C13_AdminIffGrant ==
    [][ \A r \in Reqs : LookupStepOf(r) =>
            /\ (loc'[r].adminRecord # NoAdmin) <=> (GrantsOf(r) # {})
            /\ GrantsOf(r) # {} => loc'[r].adminRecord \in GrantsOf(r) ]_vars

\* the administrator, admin present in its context, deleted its own grant; its
\* next sign-in with the same payload has a context with admin null
C13_Witness ==
    /\ rq[1].route = "adminDelete" /\ resp[1].status = 204
    /\ loc[1].adminRecord # NoAdmin
    /\ rq[2].header = rq[1].header
    /\ rq[2].route = "session" /\ resp[2].status = 200
    /\ loc[2].hasContext /\ loc[2].adminRecord = NoAdmin

----------------------------------------------------------------------------
(* Properties of requireAdmin (under SpecChecks) *)

\* the routes of the /admins and /users routers, and the check create, update,
\* delete and summary routes
AdminOnlyRoutes ==
    {"userCreate", "userUpdate", "userDelete", "mute", "unmute", "block", "unblock",
     "adminCreate", "adminUpdate", "adminDelete",
     "checkCreate", "checkUpdate", "checkDelete", "checkSummary"}

\* request r asks for one of those routes and its context has admin null
NonAdminAsks(r) ==
    loc[r].hasContext /\ loc[r].adminRecord = NoAdmin /\ rq[r].route \in AdminOnlyRoutes

\* C14: a request whose context has admin null and that asks for a route of
\* /admins or /users, or for check create, update, delete or /checks/summary,
\* is answered 403 in the step that attaches the context, a step that leaves
\* the Account, AdminGrant and Check rows as they are; the request is then
\* over and takes no further step, so none of the handlers runs for it.
C14_NonAdminStopped ==
    [][ /\ \A r \in Reqs :
            (LookupStepOf(r) /\ loc'[r].adminRecord = NoAdmin
                             /\ rq[r].route \in AdminOnlyRoutes)
            => /\ pc'[r] = "done"
               /\ resp'[r] = Response(403, "Admin access required")
               /\ UNCHANGED <<users, admins, checks>>
        /\ \A r \in Reqs : NonAdminAsks(r) =>
            /\ pc[r] = "done" /\ pc'[r] = "done"
            /\ resp[r] = Response(403, "Admin access required") /\ resp'[r] = resp[r]
            /\ wrote'[r] = wrote[r] ]_vars

\* the administrator created a check; user 1, signed in with admin null, asked
\* to delete it, was answered 403, and the check is still there
C14_Witness ==
    /\ rq[1].route = "checkCreate" /\ resp[1].status = 201
    /\ rq[2].route = "checkDelete" /\ rq[2].header = User1
    /\ NonAdminAsks(2)
    /\ resp[2] = Response(403, "Admin access required")
    /\ CheckById(checks, rq[2].target) # NoCheck

----------------------------------------------------------------------------
(* Properties of the routes index (under SpecRoutes) *)

\* a handler of /auth/session, /profile, /admins or /users is running for
\* request r, or has answered it
InHandler(r) ==
    /\ rq[r].route \notin {"none", "health"}
    /\ \/ pc[r] \notin {"idle", "auth_upsert", "auth_lookup", "done"}
       \/ pc[r] = "done" /\ resp[r].status \in {200, 201, 204, 400, 404, 409}
       \/ pc[r] = "done" /\ wrote[r] /\ loc[r].nextCalls = 1 /\ ~loc[r].nextError

\* the context of request r is the one telegramAuth makes from the header of r
Authenticated(r) ==
    /\ loc[r].hasContext
    /\ rq[r].header.present
    /\ verifyTelegramInitData(RawOf(r), botToken)
    /\ loc[r].telegramUser = parseTelegramUser(RawOf(r))
    /\ loc[r].userRecord.telegramId = IdToString(loc[r].telegramUser.id)
    /\ loc[r].adminRecord # NoAdmin =>
            loc[r].adminRecord.telegramId = IdToString(loc[r].telegramUser.id)

\* C15: whenever a handler of /auth/session, /profile, /admins or /users runs
\* for a request, or has answered it, the request has a context, made by
\* telegramAuth from the validly signed header of that same request; a request
\* for GET /health is answered without one.
C15_HandlersBehindAuth ==
    /\ \A r \in Reqs : InHandler(r) => Authenticated(r)
    /\ \A r \in Reqs : rq[r].route = "health" => (~loc[r].hasContext /\ pc[r] = "done")
    /\ \A r \in Reqs : (pc[r] = "done" /\ rq[r].route # "health" /\ ~loc[r].hasContext)
            => resp[r].status \in {401, 500}

\* GET /health was answered for a request carrying a forged header, and the
\* handler of a route of /profile, /admins or /users is running for another
C15_Witness ==
    /\ rq[1].route = "health" /\ rq[1].header = Forged2 /\ resp[1] = Response(200, "ok")
    /\ ~loc[1].hasContext
    /\ pc[2] \in {"profile_update", "udelete", "adelete"}
    /\ InHandler(2) /\ Authenticated(2)

----------------------------------------------------------------------------
(* Properties of telegramAuth on moderated Accounts (under SpecModeration) *)

\* the moderation state of an Account row
Moderation(u) == <<u.isBlocked, u.blockReason, u.mutedUntil>>

Moderated(u) == u.isBlocked \/ u.mutedUntil # Null

\* C16: telegramAuth does not look at the moderation state.  Its upsert gives
\* the request a user with isBlocked, blockReason and mutedUntil as the stored
\* row has them, and its last step attaches the context, also when that user is
\* blocked or muted: the answer is never 401, and a 403 is the one of
\* requireAdmin for a context with admin null.
C16_ModerationDoesNotReject ==
    [][ \A r \in Reqs :
            LET stored == UserByTelegramId(users, loc[r].telegramId) IN
            /\ (UpsertStepOf(r) /\ stored # NoUser)
                    => Moderation(loc'[r].userRecord) = Moderation(stored)
            /\ (pc[r] = "auth_lookup" /\ pc'[r] # pc[r])
                    => /\ loc'[r].hasContext
                       /\ loc'[r].userRecord = loc[r].userRecord
                       /\ resp'[r].status # 401
                       /\ resp'[r].status = 403 => loc'[r].adminRecord = NoAdmin
                       /\ rq[r].route = "session" => resp'[r] = Response(200, "") ]_vars

\* the Account of the administrator was blocked with a reason, and its next
\* sign-in was answered 200 with a context whose user is blocked
C16_Witness ==
    /\ rq[1].route = "block" /\ resp[1].status = 200
    /\ rq[2].route = "session" /\ resp[2] = Response(200, "")
    /\ loc[2].hasContext
    /\ loc[2].userRecord.isBlocked /\ loc[2].userRecord.blockReason = "r"
    /\ \E u \in users : u.id = loc[2].userRecord.id /\ Moderation(u) = Moderation(loc[2].userRecord)

----------------------------------------------------------------------------
(* Properties of telegramAuth when the store fails (under SpecGate) *)

\* C17: when the upsert or the admin lookup of telegramAuth throws for a
\* validly signed request, the error goes to next() once, the error handler
\* answers 500 (never 401), no context is attached, and the handler of the
\* route does not run.
C17_StoreFailureIs500 ==
    \A r \in Reqs :
        (/\ AuthOver(r)
         /\ rq[r].header.present
         /\ verifyTelegramInitData(RawOf(r), botToken)
         /\ parseTelegramUser(RawOf(r)).hasId
         /\ rq[r].fault \in {"upsert", "lookup"})
        => /\ pc[r] = "done"
           /\ resp[r].status = 500
           /\ resp[r] = ErrorHandler("PrismaError")
           /\ ~loc[r].hasContext
           /\ loc[r].nextCalls = 1 /\ loc[r].nextError
           /\ loc[r].adminRecord = NoAdmin
           /\ rq[r].fault = "upsert" => ~wrote[r]

\* the upsert threw for one request and the admin lookup for another, whose
\* upsert had written its Account; both were answered 500
C17_Witness ==
    \E r, q \in Reqs :
        /\ rq[r].fault = "upsert" /\ pc[r] = "done" /\ resp[r].status = 500 /\ ~wrote[r]
        /\ rq[q].fault = "lookup" /\ pc[q] = "done" /\ resp[q].status = 500 /\ wrote[q]
        /\ ~loc[r].hasContext /\ ~loc[q].hasContext

----------------------------------------------------------------------------
(* Properties of the first sign-in of an identity (under SpecGate) *)

\* no Account holds the Telegram id of the identity request r presents
NoAccountYet(r) ==
    UserByTelegramId(users, IdToString(parseTelegramUser(RawOf(r)).id)) = NoUser

\* C18: when the upsert of telegramAuth runs for an identity with id n that no
\* Account holds, it adds exactly one Account, with telegramId the decimal
\* string of n, isBlocked false, blockReason and mutedUntil null and no payout
\* address, and that row is the user of the request; the context then attached
\* has telegramUser.id = n, that user, and admin null when no AdminGrant holds
\* that telegramId.
C18_FirstAuthCreatesAccount ==
    [][ \A r \in Reqs :
            LET n == parseTelegramUser(RawOf(r)).id
                new == loc'[r].userRecord
            IN  /\ (UpsertStepOf(r) /\ NoAccountYet(r))
                    => /\ users' = users \cup {new}
                       /\ \A u \in users : u.id # new.id /\ u.telegramId # new.telegramId
                       /\ new.telegramId = IdToString(n)
                       /\ new.isBlocked = FALSE
                       /\ new.blockReason = Null /\ new.mutedUntil = Null
                       /\ new.payoutUsdtTrc20 = Null /\ new.payoutUsdtBep20 = Null
                       /\ Mirror(new) = MirrorOf(parseTelegramUser(RawOf(r)))
                /\ LookupStepOf(r)
                    => /\ loc'[r].telegramUser.id = n
                       /\ loc'[r].userRecord = loc[r].userRecord
                       /\ loc'[r].userRecord.telegramId = IdToString(n)
                       /\ GrantsOf(r) = {} => loc'[r].adminRecord = NoAdmin ]_vars

\* the first sign-in of user 1 was answered 200: the only Account is the one it
\* created, which is the user of its context, and the admin of the context is
\* null
C18_Witness ==
    \E r \in Reqs :
        /\ rq[r].route = "session" /\ resp[r] = Response(200, "")
        /\ loc[r].hasContext /\ loc[r].telegramUser.id = 1
        /\ loc[r].adminRecord = NoAdmin
        /\ users = {loc[r].userRecord}
        /\ loc[r].userRecord = AuthCreate(1, "1", parseTelegramUser(RawOf(r)))
        /\ nextUid = 1

----------------------------------------------------------------------------
(* Properties of the AdminGrant table (under SpecTables) *)

GrantsFor(tid) == {a \in admins : a.telegramId = tid}

\* C19: no two AdminGrant rows share a telegramId (nor an id), in every state
\* that POST /admins, PUT /admins/:id, DELETE /admins/:id and the seeding of
\* administrators can reach in any interleaving.
C19_OneGrantPerTelegramId ==
    \A a, b \in admins : (a.telegramId = b.telegramId \/ a.id = b.id) => a = b

\* a POST /admins for Telegram id 1 raced a PUT /admins/1 that set the same
\* telegramId: both lookups saw no row, the update won, the create met the
\* unique index and was answered 500, and one grant holds the telegramId
C19_Witness ==
    \E r, q \in Reqs :
        /\ rq[r].route = "adminCreate" /\ pc[r] = "done"
        /\ resp[r] = Response(500, "Internal server error")
        /\ rq[q].route = "adminUpdate" /\ resp[q].status = 200
        /\ Cardinality(GrantsFor(rq[r].body.telegramId)) = 1
        /\ \A a \in GrantsFor(rq[r].body.telegramId) : a.id = rq[q].target

----------------------------------------------------------------------------
(* Properties of acceptance over time (under SpecReplay) *)

\* the header of request r is a payload as Telegram signed it with the bot
\* token, nothing changed
SignedByTelegram(r) ==
    /\ rq[r].header.present
    /\ rq[r].header.case.kind = "fields"
    /\ rq[r].header.case.secret = botToken
    /\ rq[r].header.case.layout = "signed"
    /\ rq[r].header.case.sent = rq[r].header.case.signed

Accepted(r) == ContextAttached(r) /\ resp[r] = Response(200, "")

\* C20: a payload signed by Telegram is accepted whatever its auth_date
\* (long past, current, or none), and accepted again every time it is
\* presented; a payload whose auth_date was changed after signing is rejected
\* as any other payload with a wrong signature.
C20_SignatureOnly ==
    /\ \A r \in Reqs : (AuthOver(r) /\ SignedByTelegram(r)) => Accepted(r)
    /\ \A r \in Reqs :
        (AuthOver(r) /\ rq[r].header.present /\ ~SignedByTelegram(r)
                     /\ rq[r].header.case.sent # rq[r].header.case.signed)
        => Failed(r, "InvalidSignature")

\* a payload signed long ago was presented twice and accepted both times, on
\* the one Account its first presentation created or found
C20_Witness ==
    /\ rq[1].header = rq[2].header
    /\ SignedByTelegram(1)
    /\ ParamsGet(URLSearchParams(RawOf(1)), <<"auth_date">>).val = <<"1">>
    /\ Accepted(1) /\ Accepted(2)
    /\ loc[1].userRecord.id = loc[2].userRecord.id
    /\ nextUid = Cardinality(users)

----------------------------------------------------------------------------
(* Properties of the order of the calls of telegramAuth (under SpecGate) *)

\* the place of the call `name` among the calls telegramAuth made for request
\* r, 0 when it was not made
CallAt(r, name) ==
    IF \E i \in DOMAIN loc[r].calls : loc[r].calls[i] = name
    THEN CHOOSE i \in DOMAIN loc[r].calls : loc[r].calls[i] = name
    ELSE 0

\* call `a` was made for request r, once, before call `b`
CalledBefore(r, a, b) ==
    /\ CallAt(r, a) > 0
    /\ CallAt(r, a) < CallAt(r, b)
    /\ Cardinality({i \in DOMAIN loc[r].calls : loc[r].calls[i] = a}) = 1

\* C21: for every request, parseTelegramUser, the Account upsert and the
\* AdminGrant lookup are called only after verifyTelegramInitData was called
\* and gave true for the payload of that request; the upsert is called before
\* the lookup, and both before next().  What telegramAuth keeps of a call
\* (the identity, the Account row, the context) is there only when the call
\* was made.
C21_VerifyThenParseUpsertLookup ==
    \A r \in Reqs :
        /\ \A name \in {"parse", "upsert", "lookup"} :
              CallAt(r, name) > 0 =>
                  /\ CalledBefore(r, "verify", name)
                  /\ verifyTelegramInitData(RawOf(r), botToken)
        /\ CallAt(r, "lookup") > 0 => CalledBefore(r, "upsert", "lookup")
        /\ CallAt(r, "next") > 0 =>
              /\ CalledBefore(r, "upsert", "next")
              /\ CalledBefore(r, "lookup", "next")
        /\ loc[r].telegramUser # JsonNull => CallAt(r, "parse") > 0
        /\ (loc[r].userRecord # NoUser \/ pc[r] = "auth_lookup") => CallAt(r, "upsert") > 0
        /\ loc[r].hasContext => CallAt(r, "lookup") > 0
        /\ loc[r].hasContext <=> CallAt(r, "next") > 0

\* one request went through the five calls in order; another, with a payload
\* whose hash is not the HMAC, stopped after verifyTelegramInitData
C21_Witness ==
    \E r, q \in Reqs :
        /\ loc[r].calls = <<"verify", "parse", "upsert", "lookup", "next">>
        /\ loc[q].calls = <<"verify">>
        /\ Failed(q, "InvalidSignature")

----------------------------------------------------------------------------
(* Properties of the failures of telegramAuth (under SpecRoutes) *)

\* the three 401 answers of telegramAuth
AuthFailures ==
    { AuthFailureResponse(outcome) :
        outcome \in {"Missing", "InvalidSignature", "MalformedIdentity"} }

\* C22: the step in which telegramAuth answers Missing, InvalidSignature or
\* MalformedIdentity is the whole of the request: it begins with the request
\* arriving, it leaves the Account and AdminGrant tables (and the Check table)
\* as they are, it sets no context, calls nothing but verifyTelegramInitData
\* and parseTelegramUser, and nothing runs for the request afterwards.
C22_FailureLeavesNoTrace ==
    [][ \A r \in Reqs :
          /\ (resp[r] \notin AuthFailures /\ resp'[r] \in AuthFailures) =>
                /\ UNCHANGED <<users, admins, nextUid, nextAid, checks, nextCid>>
                /\ pc[r] = "idle" /\ pc'[r] = "done"
                /\ ~loc'[r].hasContext
                /\ loc'[r].nextCalls = 0
                /\ ~wrote'[r]
                /\ \A i \in DOMAIN loc'[r].calls : loc'[r].calls[i] \in {"verify", "parse"}
                /\ loc'[r].userRecord = NoUser /\ loc'[r].adminRecord = NoAdmin
          /\ resp[r] \in AuthFailures =>
                UNCHANGED <<rq[r], pc[r], loc[r], resp[r], wrote[r]>> ]_vars

\* user 1 signed in and has Account 2; DELETE /users/2 was then asked for
\* with a signed payload that has no identity and answered 401, and Account 2
\* and the grant of the administrator are still there
C22_Witness ==
    /\ rq[1].route = "session" /\ Accepted(1)
    /\ rq[2].route = "userDelete" /\ rq[2].target = 2
    /\ resp[2] = AuthFailureResponse("MalformedIdentity")
    /\ UserById(users, 2) # NoUser
    /\ AdminByTelegramId(admins, "2") # NoAdmin
    /\ wrote[1] /\ ~wrote[2]

----------------------------------------------------------------------------
(* Properties of withTelegramAction (under SpecRetry) *)

\* the first call of the action that succeeds, 0 when none of the first
\* MAX_CHAT_ACTION_ATTEMPTS does
FirstSuccess(script) ==
    IF \E n \in 1..MAX_CHAT_ACTION_ATTEMPTS : ActionOutcome(script, n) = "ok"
    THEN CHOOSE n \in 1..MAX_CHAT_ACTION_ATTEMPTS :
            /\ ActionOutcome(script, n) = "ok"
            /\ \A m \in 1..(n - 1) : ActionOutcome(script, m) # "ok"
    ELSE 0

\* withTelegramAction is over
RetryOver == retry.state \in {"returned", "threw"}

\* C23: withTelegramAction calls the action at most MAX_CHAT_ACTION_ATTEMPTS
\* (3) times; when it returns, it returns the result of the first call that
\* succeeded, having made no call after it; when it throws, the first three
\* calls all failed and it throws the error of the third; and whatever the
\* action does, it returns or throws in the end.
C23_AtMostThreeAttempts ==
    /\ [](retry.calls <= MAX_CHAT_ACTION_ATTEMPTS)
    /\ [](retry.state = "returned" =>
            /\ FirstSuccess(retry.script) # 0
            /\ retry.calls = FirstSuccess(retry.script)
            /\ retry.value = [kind |-> "result", at |-> FirstSuccess(retry.script),
                              name |-> "ok"])
    /\ [](retry.state = "threw" =>
            /\ FirstSuccess(retry.script) = 0
            /\ retry.calls = MAX_CHAT_ACTION_ATTEMPTS
            /\ retry.value = [kind |-> "error", at |-> MAX_CHAT_ACTION_ATTEMPTS,
                              name |-> retry.script[MAX_CHAT_ACTION_ATTEMPTS]])
    /\ <>RetryOver

\* the action failed three times with an error that was not the same each
\* time, and would have succeeded at a fourth call: the third error was thrown
C23_Witness ==
    /\ retry.script[1] = "ea" /\ retry.script[2] = "ea" /\ retry.script[3] = "eb"
    /\ retry.script[4] = "ok"
    /\ retry.state = "threw"
    /\ retry.calls = 3
    /\ retry.value.name = "eb"

----------------------------------------------------------------------------
(* Properties of the moderation handlers when the chat action fails (under  *)
(* SpecChat)                                                                *)

\* the chat action of request r was called and every attempt failed: the
\* Telegram API fails at every call, or the telegramId of the Account is not
\* a number
ChatActionFailed(r) ==
    /\ rq[r].route \in ModRoutes
    /\ pc[r] = "done"
    /\ Truthy(loc[r].chatId)
    /\ \/ ChatFailures(rq[r].fault) >= MAX_CHAT_ACTION_ATTEMPTS
       \/ NumberIsNaN(loc[r].found.telegramId)

\* C24: a mute, unmute, block or unblock whose chat action failed at every
\* attempt is answered 502, and no step of the handler up to that answer
\* writes the User table; the handler's update is issued only when the chat
\* action has succeeded at its last attempt, or, for block and unblock, when
\* no chat id was resolved and no attempt was made.
C24_ChatFailureWritesNothing ==
    [][ \A r \in Reqs : rq[r].route \in ModRoutes =>
          /\ (pc[r] \in {"mod_find", "mod_chat"} /\ <<pc[r], loc[r], resp[r]>>' # <<pc[r], loc[r], resp[r]>>)
                => UNCHANGED <<users, nextUid>>
          /\ pc'[r] = "mod_update" =>
                \/ /\ Truthy(loc'[r].chatId)
                   /\ loc'[r].attempt \in 1..MAX_CHAT_ACTION_ATTEMPTS
                   /\ loc'[r].attempt = ChatFailures(rq'[r].fault) + 1
                   /\ ~NumberIsNaN(loc'[r].found.telegramId)
                \/ /\ ~Truthy(loc'[r].chatId)
                   /\ rq'[r].route \in {"block", "unblock"}
                   /\ loc'[r].attempt = 0
          /\ ChatActionFailed(r)' => resp'[r] = ChatFailure(rq'[r].route)
          /\ (resp[r].status # 502 /\ resp'[r].status = 502) =>
                /\ pc[r] = "mod_chat"
                /\ UNCHANGED <<users, nextUid>>
                /\ ChatActionFailed(r)' ]_vars

\* a block went through at the second attempt of its chat action, and a mute
\* of the same Account was answered 502 after three failed attempts: the
\* Account is blocked and not muted
C24_Witness ==
    /\ rq[1].route = "block" /\ rq[1].fault = "chat1" /\ loc[1].attempt = 2
    /\ resp[1] = Response(200, "")
    /\ rq[2].route = "mute" /\ rq[2].fault = "chat3"
    /\ loc[2].attempt = MAX_CHAT_ACTION_ATTEMPTS
    /\ resp[2] = ChatFailure("mute")
    /\ UserById(users, 1).isBlocked
    /\ UserById(users, 1).mutedUntil = Null

----------------------------------------------------------------------------
(* Properties of the block fields of an Account (under SpecModeration) *)

\* isBlocked and blockReason of an Account row
BlockFields(u) == <<u.isBlocked, u.blockReason>>

\* request r is at the update of POST /users/:id/block or /unblock on Account
\* id, and the step answers it
BlockUpdateOf(r, id) ==
    /\ rq[r].route \in {"block", "unblock"}
    /\ rq[r].target = id
    /\ pc[r] = "mod_update"
    /\ pc'[r] = "done"

\* C25: after every step, an Account whose blockReason is not null has
\* isBlocked = true; a step that changes isBlocked or blockReason of an
\* Account is the update of a block, which leaves isBlocked = true, or of an
\* unblock, which leaves isBlocked = false and blockReason = null, on that
\* Account; every other step (telegramAuth, POST /users, PUT /users/:id, mute,
\* unmute, PATCH /profile/me) leaves both as they are, and a new Account has
\* isBlocked = false and blockReason = null.
C25_ReasonOnlyWhenBlocked ==
    [][ /\ \A v \in users' : v.blockReason # Null => v.isBlocked
        /\ \A u \in users, v \in users' :
              (u.id = v.id /\ BlockFields(u) # BlockFields(v)) =>
                  \E r \in Reqs :
                      /\ BlockUpdateOf(r, u.id)
                      /\ rq[r].route = "block" => v.isBlocked
                      /\ rq[r].route = "unblock" => BlockFields(v) = <<FALSE, Null>>
        /\ \A v \in users' :
              (\A u \in users : u.id # v.id) => BlockFields(v) = <<FALSE, Null>> ]_vars

\* the administrator was blocked with a reason and has signed in since with
\* new names: the Account has the names and is still blocked, for that reason
C25_Witness ==
    /\ rq[1].route = "block" /\ resp[1] = Response(200, "")
    /\ rq[2].header = Admin2Named /\ Accepted(2)
    /\ UserById(users, 1).username = "a"
    /\ BlockFields(UserById(users, 1)) = <<TRUE, "r">>
    /\ loc[2].userRecord.isBlocked

----------------------------------------------------------------------------
(* Properties of what a moderation update writes (under SpecModeration) *)

\* the step answers request r, a call of `route`, with 200 from its update
Succeeds(r, route) ==
    /\ rq[r].route = route
    /\ pc[r] = "mod_update"
    /\ resp'[r] = Response(200, "")

\* C26: the step in which a block succeeds leaves the Account with isBlocked =
\* true and mutedUntil = null; the step in which an unblock succeeds leaves it
\* with isBlocked = false and blockReason = null and with the mutedUntil it
\* had; the step in which a mute or an unmute succeeds changes no field of the
\* Account but mutedUntil and chatId.  No other row is changed by the step.
C26_ModerationFrame ==
    [][ \A r \in Reqs :
          LET before == UserById(users, rq[r].target)
              after == UserById(users', rq[r].target)
          IN  /\ Succeeds(r, "block") =>
                    /\ after.isBlocked
                    /\ after.mutedUntil = Null
              /\ Succeeds(r, "unblock") =>
                    /\ ~after.isBlocked
                    /\ after.blockReason = Null
                    /\ after.mutedUntil = before.mutedUntil
              /\ (Succeeds(r, "mute") \/ Succeeds(r, "unmute")) =>
                    /\ after = [before EXCEPT !.mutedUntil = after.mutedUntil,
                                              !.chatId = after.chatId]
                    /\ after.mutedUntil = IF rq[r].route = "mute" THEN loc[r].until ELSE Null
              /\ (\E route \in ModRoutes : Succeeds(r, route)) =>
                    /\ before # NoUser /\ after # NoUser
                    /\ users' \ {after} = users \ {before} ]_vars

\* the administrator's Account was muted and then unblocked: it is not
\* blocked and is still muted
C26_Witness ==
    /\ rq[1].route = "mute" /\ resp[1] = Response(200, "")
    /\ rq[2].route = "unblock" /\ resp[2] = Response(200, "")
    /\ loc[2].found.mutedUntil = "now+d"
    /\ UserById(users, 1).mutedUntil = "now+d"
    /\ BlockFields(UserById(users, 1)) = <<FALSE, Null>>

----------------------------------------------------------------------------
(* Properties of the checks of POST /users/:id/mute (under SpecMute) *)

\* the chat id a mute request on Account `user` is to use: the chatId of the
\* body when it is not blank, else the chatId stored on the Account; Null
\* when there is neither
ChatIdFor(body, user) ==
    IF body.chatId \notin {Undef, "", " "} THEN (IF body.chatId = " 1" THEN "1" ELSE body.chatId)
    ELSE IF user.chatId \notin {Null, ""} THEN user.chatId
    ELSE Null

\* the end time a mute request is to use: durationMinutes when the body has
\* it, else `until` when it is a date; Null when there is neither
EndFor(body) ==
    IF body.durationMinutes # Undef THEN "now+d"
    ELSE IF body.until = "t1" THEN "t1"
    ELSE Null

\* request r is a mute for which a call of the Telegram API or an update of
\* the Account is pending or has been made
MuteActs(r) ==
    /\ rq[r].route = "mute"
    /\ \/ pc[r] \in {"mod_chat", "mod_update"}
       \/ loc[r].attempt > 0
       \/ resp[r] = Response(200, "")

----------------------------------------------------------------------------
(* Properties of the Account of a grant (under SpecTables) *)

\* the step answers request r, a POST /admins or a PUT /admins/:id that sets
\* telegramId, with success
GrantSucceeds(r) ==
    /\ resp[r] = NoResponse
    /\ \/ rq[r].route = "adminCreate" /\ resp'[r] = Response(201, "")
       \/ rq[r].route = "adminUpdate" /\ Truthy(rq[r].body.telegramId)
                                     /\ resp'[r] = Response(200, "")

\* the step is the prisma.user.upsert({ create: { telegramId }, update: {} })
\* for telegramId t: the Account is inserted with the column defaults when no
\* row holds t, and the table is left as it is when one does
EnsuresAccount(t) ==
    IF UserByTelegramId(users, t) = NoUser
    THEN users' = users \cup {DefaultUser(nextUid + 1, t)}
    ELSE users' = users

\* C28: when a POST /admins or a PUT /admins/:id that sets telegramId has
\* succeeded, and when seeding is over, an Account with that telegramId
\* exists; the upsert that sees to it inserts an Account with default fields
\* when there is none and leaves the table unchanged when there is one.
C28_GrantHasAccount ==
    [][ /\ \A r \in Reqs :
              GrantSucceeds(r) => UserByTelegramId(users', rq[r].body.telegramId) # NoUser
        /\ \A r \in Reqs :
              (pc[r] \in {"acreate_upsert", "aupdate_upsert"} /\ pc'[r] # pc[r])
                  => EnsuresAccount(rq[r].body.telegramId)
        /\ \A i \in DOMAIN seed.at :
              (seed.at[i] = "user" /\ seed'.at[i] = "admin") => EnsuresAccount(seed.ids[i])
        /\ (~Listening /\ Listening') =>
              \A i \in DOMAIN seed.ids : UserByTelegramId(users', seed.ids[i]) # NoUser ]_vars

----------------------------------------------------------------------------
(* Properties of the telegramId conflicts of the admin routes (under        *)
(* SpecTables)                                                              *)

\* the telegramId of a body of /users without the blanks around it
AsTrimmed(t) == IF t = " 1" THEN "1" ELSE t

\* request r is at the findUnique of its handler and the telegramId it names
\* is taken: by any row for a POST, by a row other than its target for a PUT
Conflict(r) ==
    CASE pc[r] = "ucreate_find" ->
            \E u \in users : u.telegramId = AsTrimmed(rq[r].body.telegramId)
      [] pc[r] = "uupdate_find" ->
            \E u \in users : /\ u.telegramId = AsTrimmed(rq[r].body.telegramId)
                             /\ u.id # rq[r].target
      [] pc[r] = "acreate_find" ->
            \E a \in admins : a.telegramId = rq[r].body.telegramId
      [] pc[r] = "aupdate_find" ->
            \E a \in admins : /\ a.telegramId = rq[r].body.telegramId
                              /\ a.id # rq[r].target
      [] OTHER -> FALSE

\* where each handler goes on when its findUnique shows no conflict
AfterFind(at) ==
    CASE at = "ucreate_find" -> "ucreate_create"
      [] at = "uupdate_find" -> "uupdate_update"
      [] at = "acreate_find" -> "acreate_upsert"
      [] at = "aupdate_find" -> "aupdate_upsert"

\* C29: the findUnique step of POST /users, PUT /users/:id, POST /admins and
\* PUT /admins/:id answers 409 when the telegramId of the body (trimmed, for
\* /users) is held by a row, for a PUT by a row other than the one the
\* request names, and leaves the User and Admin tables unchanged; when it is
\* held by no row, or for a PUT only by the row the request names, the
\* request is not answered there and goes on; a 409 is given nowhere else.
C29_ConflictIs409 ==
    [][ \A r \in Reqs :
          /\ (pc[r] \in {"ucreate_find", "uupdate_find", "acreate_find", "aupdate_find"}
                /\ pc'[r] # pc[r]) =>
                /\ UNCHANGED <<users, admins, nextUid, nextAid>>
                /\ IF Conflict(r)
                   THEN pc'[r] = "done" /\ resp'[r].status = 409
                   ELSE pc'[r] = AfterFind(pc[r]) /\ resp'[r] = NoResponse
          /\ (resp[r].status # 409 /\ resp'[r].status = 409) =>
                /\ Conflict(r)
                /\ UNCHANGED <<users, admins, nextUid, nextAid>> ]_vars

\* POST /users made an Account for telegramId " 1", stored as "1"; a second
\* POST /users for "1" was answered 409 and the table has the one Account
C29_Witness ==
    /\ rq[1].route = "userCreate" /\ rq[1].body.telegramId = " 1"
    /\ resp[1] = Response(201, "")
    /\ rq[2].route = "userCreate" /\ rq[2].body.telegramId = "1"
    /\ resp[2].status = 409
    /\ Cardinality(AccountsOf("1")) = 1

----------------------------------------------------------------------------
(* Properties of GET /checks (under SpecList) *)

\* the step answers request r, a GET /checks
ListAnswered(r) ==
    /\ rq[r].route = "checkList"
    /\ pc[r] \in {"clist", "clist_many"}
    /\ pc'[r] = "done"

\* the caller of request r is not an administrator / is one
NonAdminCaller(r) == loc[r].adminRecord = NoAdmin

\* request r names no Account, 'me', or the caller's own id
AsksOwn(r) ==
    \/ rq[r].body.userId \in {Undef, "me"}
    \/ rq[r].body.userId = "id" /\ rq[r].target = loc[r].userRecord.id

\* C30: in the step that answers a GET /checks, a caller who is not an
\* administrator is given no check of a partner Account other than the
\* caller's own; with userId absent, 'me' or the caller's own id the caller is
\* given the caller's checks; with another id the answer is 404 when no
\* Account has it and 403 when the Account is a partner; an administrator is
\* given the checks of the Account named.
C30_NoForeignPartnerChecks ==
    [][ \A r \in Reqs : ListAnswered(r) =>
          /\ NonAdminCaller(r) =>
                \A c \in loc'[r].listed :
                    \/ c.userId = loc[r].userRecord.id
                    \/ ~UserById(users, c.userId).isPartner
          /\ (NonAdminCaller(r) /\ AsksOwn(r)) =>
                /\ resp'[r] = Response(200, "")
                /\ loc'[r].listed = ChecksOf(checks, loc[r].userRecord.id)
          /\ (NonAdminCaller(r) /\ ~AsksOwn(r) /\ pc[r] = "clist") =>
                /\ UserById(users, rq[r].target) = NoUser => resp'[r].status = 404
                /\ UserById(users, rq[r].target).isPartner => resp'[r].status = 403
          /\ ~NonAdminCaller(r) =>
                /\ resp'[r] = Response(200, "")
                /\ loc'[r].listed = ChecksOf(checks, rq[r].target) ]_vars

====
